---- MODULE Spec2Model ----
(***************************************************************************)
(* Model of the geometry / feedback pipeline of the motion coach:          *)
(* ScoringEngine, AlignmentEngine, CueMapper, Normalizer and GeminiCoach.  *)
(*                                                                         *)
(* Python floats are modelled as exact rationals [n, d] in lowest terms.   *)
(* Square roots and angles are exact on the input sets used below (all     *)
(* reference vectors have rational length, all joint angles are among      *)
(* 0, 14, 30, 45, 60, 90, ..., 180 degrees); an input outside that domain  *)
(* makes TLC stop with an error instead of silently rounding.              *)
(***************************************************************************)
EXTENDS Integers, Sequences, FiniteSets, TLC

VARIABLES
    mode,          \* ScoringEngine.mode
    ema_score,     \* ScoringEngine.ema_score: None or Some(rational)
    outcome,       \* how the last call on the engine ended
    result,        \* the ScoringResult returned by the last successful score_frame
    call,          \* the last call made on the engine and its arguments
    fresh,         \* no score_frame has succeeded since construction / the last reset
    ncalls,        \* number of calls made so far (bounded by MaxCalls)
    cue_in,        \* the call made on the CueMapper and its arguments
    cue_out,       \* the list of cues it returned
    coach_pc,       \* where the call of generate_coaching stands
    coach_request,  \* its CoachingRequest
    coach_event,    \* what the language-polishing collaborator did
    coach_result,   \* the CoachingResponse returned, or the exception raised
    norm_in,        \* the skeleton and target_scale given to normalize
    norm_canon,     \* the canonical skeleton normalize returned
    norm_params,    \* the transform_params normalize returned
    norm_y,         \* the skeleton given to apply_transform
    norm_cur,       \* the array returned by the last call
    norm_trace,     \* the calls made so far
    align_in,      \* the arguments of the align_hands / align_pose call
    align_out,     \* the AlignmentResult it returned
    scoring_engines,  \* feedback.scoring_engines: session_id -> engine
    in_flight,        \* the requests received and not yet handled
    handled,          \* the requests handled, in the order the handler ran, with responses
    nrequests,        \* number of requests received so far (bounded by MaxRequests)
    fn_k,             \* k_scaling of the engine whose error_to_score is called
    fn_calls,         \* the calls of error_to_score made on it: error and returned score
    parse_in,         \* the arguments of the _deterministic_parse call
    parse_i,          \* its local i
    parse_results,    \* its local results
    parse_pc          \* where the call stands: "idle", "loop" or "done"

scoreVars == <<mode, ema_score, outcome, result, call, fresh, ncalls>>
alignVars == <<align_in, align_out>>
cueVars == <<cue_in, cue_out>>
coachVars == <<coach_pc, coach_request, coach_event, coach_result>>
normVars == <<norm_in, norm_canon, norm_params, norm_y, norm_cur, norm_trace>>
feedbackVars == <<scoring_engines, in_flight, handled, nrequests>>
fnVars == <<fn_k, fn_calls>>
parseVars == <<parse_in, parse_i, parse_results, parse_pc>>

-----------------------------------------------------------------------------
(* Bounds of the model *)

MaxCalls == 3

-----------------------------------------------------------------------------
(* Exact rational arithmetic standing for Python / numpy float arithmetic *)

Abs(x) == IF x < 0 THEN -x ELSE x

RECURSIVE GCD(_, _)
GCD(a, b) == IF b = 0 THEN a ELSE GCD(b, a % b)

Rat(n, d) ==
    LET g == GCD(Abs(n), Abs(d))
        s == IF d < 0 THEN -1 ELSE 1
    IN  [n |-> s * (n \div g), d |-> s * (d \div g)]

Zero == Rat(0, 1)
One == Rat(1, 1)
RInt(k) == Rat(k, 1)

RNeg(a) == [n |-> -a.n, d |-> a.d]

RAdd(a, b) ==
    LET g == GCD(a.d, b.d)
    IN  Rat(a.n * (b.d \div g) + b.n * (a.d \div g), (a.d \div g) * b.d)

RSub(a, b) == RAdd(a, RNeg(b))

RMul(a, b) ==
    LET g1 == GCD(Abs(a.n), b.d)
        g2 == GCD(Abs(b.n), a.d)
    IN  Rat((a.n \div g1) * (b.n \div g2), (a.d \div g2) * (b.d \div g1))

\* a / b for b # 0
RDiv(a, b) == RMul(a, IF b.n < 0 THEN [n |-> -b.d, d |-> -b.n] ELSE [n |-> b.d, d |-> b.n])

\* comparisons, cross-multiplied over the common part of the denominators
RLt(a, b) == LET g == GCD(a.d, b.d) IN a.n * (b.d \div g) < b.n * (a.d \div g)
RLe(a, b) == LET g == GCD(a.d, b.d) IN a.n * (b.d \div g) <= b.n * (a.d \div g)
RAbs(a) == [n |-> Abs(a.n), d |-> a.d]
RMin(a, b) == IF RLt(b, a) THEN b ELSE a    \* Python min(a, b)
RMax(a, b) == IF RLt(a, b) THEN b ELSE a    \* Python max(a, b)

\* sum of s[i..Len(s)] added to acc, left to right (the test on acc.d only makes
\* TLC evaluate the accumulator at every step instead of nesting the additions)
RECURSIVE RSumFrom(_, _, _)
RSumFrom(s, i, acc) ==
    IF acc.d = 0 \/ i > Len(s) THEN acc ELSE RSumFrom(s, i + 1, RAdd(acc, s[i]))

RSumSeq(s) == RSumFrom(s, 1, Zero)

\* np.mean of a non-empty sequence
RMean(s) == RDiv(RSumSeq(s), RInt(Len(s)))

RECURSIVE SqrtSearch(_, _, _)
SqrtSearch(n, lo, hi) ==
    IF lo >= hi THEN lo
    ELSE LET mid == (lo + hi + 1) \div 2
         IN  IF mid * mid <= n THEN SqrtSearch(n, mid, hi) ELSE SqrtSearch(n, lo, mid - 1)

\* exact integer square root; defined on perfect squares only
ISqrt(n) == CHOOSE r \in {SqrtSearch(n, 0, IF n < 46340 THEN n ELSE 46340)} : r * r = n

RSqrt(a) == Rat(ISqrt(a.n), ISqrt(a.d))

-----------------------------------------------------------------------------
(* Optional values *)

None == <<>>
Some(v) == <<v>>

-----------------------------------------------------------------------------
(* Keypoint arrays: a sequence of rows, row idx of the program is element  *)
(* idx + 1; every row has the same number of columns (2, 3 or 4).          *)

Row(kp, idx) == kp[idx + 1]
Shape(kp) == <<Len(kp), IF Len(kp) = 0 THEN 0 ELSE Len(kp[1])>>

VSub(p, q) == [i \in 1..Len(p) |-> RSub(p[i], q[i])]
VAdd(p, q) == [i \in 1..Len(p) |-> RAdd(p[i], q[i])]
VScale(p, k) == [i \in 1..Len(p) |-> RMul(p[i], k)]
Dot(p, q) == RSumSeq([i \in 1..Len(p) |-> RMul(p[i], q[i])])

\* the least common denominator of p[i..Len(p)] and acc
RECURSIVE CommonDenominator(_, _, _)
CommonDenominator(p, i, acc) ==
    IF i > Len(p) THEN acc
    ELSE CommonDenominator(p, i + 1, (acc \div GCD(acc, p[i].d)) * p[i].d)

\* the greatest common divisor of the integers q[i..Len(q)] and acc
RECURSIVE CommonDivisor(_, _, _)
CommonDivisor(q, i, acc) ==
    IF i > Len(q) THEN acc ELSE CommonDivisor(q, i + 1, GCD(acc, Abs(q[i])))

\* np.linalg.norm(p): p is g/den times a vector of integers, whose length is
\* taken exactly
Norm(p) ==
    LET den == CommonDenominator(p, 1, 1)
        q == [i \in 1..Len(p) |-> p[i].n * (den \div p[i].d)]
        g == CommonDivisor(q, 1, 0)
    IN  IF g = 0 THEN Zero
        ELSE Rat(g * ISqrt(Dot([i \in 1..Len(p) |-> RInt(q[i] \div g)],
                                [i \in 1..Len(p) |-> RInt(q[i] \div g)]).n), den)

euclidean_distance(p1, p2) == Norm(VSub(p1, p2))

\* arccos in degrees of d / sqrt(nn), for the angles whose squared cosine is
\* rational: 0, 30, 45, 60, 90 and their supplements; and for a squared cosine
\* of 16/17, where arccos is 14.04 degrees, kept as 14
ArccosDeg(d, nn) ==
    LET r == RDiv(RMul(d, d), nn)
        a == CHOOSE x \in {0, 14, 30, 45, 60, 90} :
                 \/ x = 0 /\ r = One
                 \/ x = 14 /\ r = Rat(16, 17)
                 \/ x = 30 /\ r = Rat(3, 4)
                 \/ x = 45 /\ r = Rat(1, 2)
                 \/ x = 60 /\ r = Rat(1, 4)
                 \/ x = 90 /\ r = Zero
    IN  IF d.n < 0 THEN 180 - a ELSE a

\* The 1e-8 added to the denominator makes the cosine of a zero-length
\* vector 0 (90 degrees); on non-zero vectors it is below float resolution
\* of the angles compared here and is not modelled.
angle_between_vectors(v1, v2) ==
    LET nn == RMul(Dot(v1, v1), Dot(v2, v2))
    IN  IF nn = Zero THEN RInt(90) ELSE RInt(ArccosDeg(Dot(v1, v2), nn))

compute_angle_at_joint(p1, p2, p3) == angle_between_vectors(VSub(p1, p2), VSub(p3, p2))

-----------------------------------------------------------------------------
(* Stable sort, descending by key: Python sorted(items, key=..., reverse=True). *)
(* items is a sequence of records [k |-> rational key, v |-> payload].          *)

RECURSIVE InsertDesc(_, _)
InsertDesc(sorted, x) ==
    IF sorted = <<>> THEN <<x>>
    ELSE IF RLt(Head(sorted).k, x.k) THEN <<x>> \o sorted
    ELSE <<Head(sorted)>> \o InsertDesc(Tail(sorted), x)

RECURSIVE SortDesc(_)
SortDesc(items) ==
    IF items = <<>> THEN <<>>
    ELSE InsertDesc(SortDesc(SubSeq(items, 1, Len(items) - 1)), items[Len(items)])

\* Python s[:n] for any integer n (a negative n counts from the end)
Slice(s, n) ==
    IF n >= 0 THEN SubSeq(s, 1, IF n < Len(s) THEN n ELSE Len(s))
    ELSE SubSeq(s, 1, IF Len(s) + n > 0 THEN Len(s) + n ELSE 0)

-----------------------------------------------------------------------------
(* ScoringEngine *)

HandJoints == 21
PoseJoints == 33

Modes == {"positional", "angular", "combined"}

position_weight == Rat(6, 10)
angle_weight == Rat(4, 10)
ema_alpha == Rat(3, 10)
k_scaling == RInt(500)

HAND_JOINT_WEIGHTS(idx) ==
    IF idx = 0 THEN Rat(10, 10)
    ELSE IF idx \in {4, 8, 12} THEN Rat(15, 10)
    ELSE IF idx \in {16, 20} THEN Rat(12, 10)
    ELSE One

FINGER_CHAINS ==
    << <<0, 1, 2, 3, 4>>, <<0, 5, 6, 7, 8>>, <<0, 9, 10, 11, 12>>,
       <<0, 13, 14, 15, 16>>, <<0, 17, 18, 19, 20>> >>

\* indices, in ascending order, of the joints that pass the mask
RECURSIVE Unmasked(_, _, _)
Unmasked(n, mask, idx) ==
    IF idx >= n THEN <<>>
    ELSE (IF mask # None /\ ~mask[1][idx + 1] THEN <<>> ELSE <<idx>>) \o Unmasked(n, mask, idx + 1)

\* compute_positional_error that does not look at the mask
compute_positional_error_unmasked(user, expert, weighted, mask) ==
    LET keys == Unmasked(Len(user), None, 0)
        w(idx) == IF weighted THEN HAND_JOINT_WEIGHTS(idx) ELSE One
        dist == [idx \in {keys[i] : i \in 1..Len(keys)} |->
                    euclidean_distance(Row(user, idx), Row(expert, idx))]
        weighted_error == RSumSeq([i \in 1..Len(keys) |-> RMul(w(keys[i]), dist[keys[i]])])
        total_weight == RSumSeq([i \in 1..Len(keys) |-> w(keys[i])])
    IN  [total |-> IF total_weight = Zero THEN Zero ELSE RDiv(weighted_error, total_weight),
         keys |-> keys,
         per_joint |-> dist]

\* returns [total, per_joint]; per_joint is the dict idx -> distance, its keys
\* (in insertion order) are keys
compute_positional_error(user, expert, weighted, mask) ==
    LET keys == Unmasked(Len(user), mask, 0)
        w(idx) == IF weighted THEN HAND_JOINT_WEIGHTS(idx) ELSE One
        dist == [idx \in {keys[i] : i \in 1..Len(keys)} |->
                    euclidean_distance(Row(user, idx), Row(expert, idx))]
        weighted_error == RSumSeq([i \in 1..Len(keys) |-> RMul(w(keys[i]), dist[keys[i]])])
        total_weight == RSumSeq([i \in 1..Len(keys) |-> w(keys[i])])
    IN  [total |-> IF total_weight = Zero THEN Zero ELSE RDiv(weighted_error, total_weight),
         keys |-> keys,
         per_joint |-> dist]

\* mean absolute difference of the interior angles along one chain
ChainError(user, expert, chain) ==
    RMean([i \in 1..(Len(chain) - 2) |->
        RAbs(RSub(compute_angle_at_joint(Row(user, chain[i]), Row(user, chain[i + 1]), Row(user, chain[i + 2])),
                  compute_angle_at_joint(Row(expert, chain[i]), Row(expert, chain[i + 1]), Row(expert, chain[i + 2]))))])

compute_angular_error(user, expert, joint_chains) ==
    LET all_errors == [c \in 1..Len(joint_chains) |-> ChainError(user, expert, joint_chains[c])]
    IN  IF all_errors = <<>> THEN Zero ELSE RDiv(RMean(all_errors), RInt(180))

\* error_to_score without the clamp
error_to_score_unclamped(error) == RSub(RInt(100), RMul(k_scaling, error))

\* error_to_score of an engine constructed with k_scaling = k, without the clamp
error_to_score_of_unclamped(k, error) == RSub(RInt(100), RMul(k, error))

\* error_to_score of an engine constructed with k_scaling = k
error_to_score_of(k, error) ==
    RMax(Zero, RMin(RInt(100), RSub(RInt(100), RMul(k, error))))

error_to_score(error) == error_to_score_of(k_scaling, error)

\* the value of ema_score after smooth_score(raw_score); it is also the value returned
smooth_score(ema, raw_score) ==
    IF ema = None THEN raw_score
    ELSE RAdd(RMul(ema_alpha, raw_score), RMul(RSub(One, ema_alpha), ema[1]))

\* get_top_error_joints with a sort that leaves joints of equal error in
\* descending index order
get_top_error_joints_ties_reversed(pos, n) ==
    LET sorted_joints == SortDesc([i \in 1..Len(pos.keys) |->
                                      [k |-> pos.per_joint[pos.keys[Len(pos.keys) + 1 - i]],
                                       v |-> pos.keys[Len(pos.keys) + 1 - i]]])
        top == Slice(sorted_joints, n)
    IN  [i \in 1..Len(top) |-> top[i].v]

get_top_error_joints(pos, n) ==
    LET sorted_joints == SortDesc([i \in 1..Len(pos.keys) |->
                                      [k |-> pos.per_joint[pos.keys[i]], v |-> pos.keys[i]]])
        top == Slice(sorted_joints, n)
    IN  [i \in 1..Len(top) |-> top[i].v]

TopN == 3

\* the part of score_frame that does not depend on the engine: lines 98-105
FrameErrors(user, expert, mask) ==
    LET pos == compute_positional_error(user, expert, Len(user) = HandJoints, mask)
    IN  [pos |-> pos,
         positional_score |-> error_to_score(pos.total),
         angular_score |-> error_to_score(compute_angular_error(user, expert, FINGER_CHAINS))]

\* a ScoringResult whose part scores are smoothed like the overall score
ScoringResultSmoothedParts(m, ema, fe) ==
    LET raw_score == IF m = "positional" THEN fe.positional_score
                     ELSE IF m = "angular" THEN fe.angular_score
                     ELSE RAdd(RMul(position_weight, fe.positional_score),
                               RMul(angle_weight, fe.angular_score))
    IN  [overall_score |-> smooth_score(ema, raw_score),
         raw_score |-> raw_score,
         keys |-> fe.pos.keys,
         per_joint_errors |-> fe.pos.per_joint,
         top_error_joints |-> get_top_error_joints(fe.pos, TopN),
         positional_score |-> smooth_score(ema, fe.positional_score),
         angular_score |-> smooth_score(ema, fe.angular_score),
         timing_penalty |-> Zero]

\* the ScoringResult of score_frame on an engine in mode m whose ema_score is ema,
\* for a frame with errors fe
ScoringResult(m, ema, fe) ==
    LET raw_score == IF m = "positional" THEN fe.positional_score
                     ELSE IF m = "angular" THEN fe.angular_score
                     ELSE RAdd(RMul(position_weight, fe.positional_score),
                               RMul(angle_weight, fe.angular_score))
    IN  [overall_score |-> smooth_score(ema, raw_score),
         raw_score |-> raw_score,
         keys |-> fe.pos.keys,
         per_joint_errors |-> fe.pos.per_joint,
         top_error_joints |-> get_top_error_joints(fe.pos, TopN),
         positional_score |-> fe.positional_score,
         angular_score |-> fe.angular_score,
         timing_penalty |-> Zero]

NoResult ==
    [overall_score |-> Zero, raw_score |-> Zero, keys |-> <<>>, per_joint_errors |-> <<>>,
     top_error_joints |-> <<>>, positional_score |-> Zero, angular_score |-> Zero,
     timing_penalty |-> Zero]

-----------------------------------------------------------------------------
(* Input skeletons.  Coordinates are given in hundredths of a normalized   *)
(* unit.  Fingers of the base hand are straight rays from the wrist whose   *)
(* tips lie on one horizontal line.                                         *)

Pt(x, y) == <<Rat(x, 100), Rat(y, 100)>>

FingerDir == << <<-10, 10>>, <<-5, 10>>, <<0, 10>>, <<5, 10>>, <<10, 10>> >>

\* joint idx of a hand whose wrist is at (cx, cy)
HandJoint(cx, cy, idx) ==
    IF idx = 0 THEN Pt(cx, cy)
    ELSE LET dir == FingerDir[((idx - 1) \div 4) + 1]
             k == ((idx - 1) % 4) + 1
         IN  Pt(cx + k * dir[1], cy + k * dir[2])

Hand(cx, cy) == [i \in 1..HandJoints |-> HandJoint(cx, cy, i - 1)]

\* a 33-joint body: joints 0..20 laid out like the hand, the rest on a row below
Pose(cx, cy) ==
    [i \in 1..PoseJoints |->
        IF i <= HandJoints THEN HandJoint(cx, cy, i - 1) ELSE Pt(cx + 10 * (i - 27), cy - 30)]

Shifted(kp, dx, dy) ==
    [i \in 1..Len(kp) |-> [c \in 1..Len(kp[i]) |->
        IF c = 1 THEN RAdd(kp[i][c], Rat(dx, 100))
        ELSE IF c = 2 THEN RAdd(kp[i][c], Rat(dy, 100)) ELSE kp[i][c]]]

\* kp with the rows of joints a and b replaced
WithJoints(kp, a, pa, b, pb) ==
    [i \in 1..Len(kp) |-> IF i = a + 1 THEN pa ELSE IF i = b + 1 THEN pb ELSE kp[i]]

\* the middle finger bent by 90 degrees at joint 10
BentMiddle(cx, cy) == WithJoints(Hand(cx, cy), 11, Pt(cx + 24, cy + 20), 12, Pt(cx + 48, cy + 20))

\* the middle finger folded back onto itself at joint 10
FoldedMiddle(cx, cy) == WithJoints(Hand(cx, cy), 11, Pt(cx, cy + 10), 12, Pt(cx, cy))

\* kp with a z column of 0 appended
WithZ(kp) == [i \in 1..Len(kp) |-> kp[i] \o <<Zero>>]

\* kp with the columns z = 0 and confidence conf[i] appended
WithConf(kp, conf) == [i \in 1..Len(kp) |-> kp[i] \o <<Zero, conf[i]>>]

Short(cx, cy) == SubSeq(Hand(cx, cy), 1, 5)

MaskAll(n) == Some([i \in 1..n |-> TRUE])
MaskNone(n) == Some([i \in 1..n |-> FALSE])
MaskTips(n) == Some([i \in 1..n |-> (i - 1) \in {4, 8, 12, 16, 20}])
MaskPair(n) == Some([i \in 1..n |-> (i - 1) \in {11, 12}])

\* the frames offered to score_frame: <<user, expert, confidence_mask>>
Frames ==
    << <<Hand(50, 50), Hand(50, 50), None>>,
       <<Shifted(Hand(50, 50), 15, 0), Hand(50, 50), None>>,
       <<Shifted(Hand(50, 50), 3, 4), Hand(50, 50), MaskAll(HandJoints)>>,
       <<BentMiddle(50, 50), Hand(50, 50), None>>,
       <<BentMiddle(50, 50), Hand(50, 50), MaskTips(HandJoints)>>,
       <<FoldedMiddle(50, 50), Hand(50, 50), MaskNone(HandJoints)>>,
       <<Shifted(Hand(50, 50), 0, 100), Hand(50, 50), None>>,
       <<Hand(50, 50), Pose(50, 50), None>>,
       <<Hand(50, 50), WithZ(Hand(50, 50)), None>>,
       <<Shifted(Pose(50, 50), 0, 10), Pose(50, 50), None>>,
       <<Short(50, 50), Short(50, 50), None>>,
       <<BentMiddle(50, 50), Hand(50, 50), MaskPair(HandJoints)>> >>

\* score_frame's engine-independent computation, tabulated per frame (frames that
\* raise before or while computing it have no entry)
Scorable(f) == Shape(Frames[f][1]) = Shape(Frames[f][2]) /\ Len(Frames[f][1]) >= HandJoints

FrameTable ==
    [f \in 1..Len(Frames) |->
        IF Scorable(f) THEN FrameErrors(Frames[f][1], Frames[f][2], Frames[f][3]) ELSE <<>>]

-----------------------------------------------------------------------------
(* The engine as a state machine: one engine, any sequence of calls *)

ScoreInit ==
    /\ mode \in Modes
    /\ ema_score = None
    /\ outcome = "constructed"
    /\ result = NoResult
    /\ call = [op |-> "__init__", frame |-> 0]
    /\ fresh = TRUE
    /\ ncalls = 0

\* score_frame that drops the smoothing state when it rejects a frame
score_frame_rejecting_clears(f) ==
    /\ ncalls < MaxCalls
    /\ ncalls' = ncalls + 1
    /\ call' = [op |-> "score_frame", frame |-> f]
    /\ mode' = mode
    /\ IF Shape(Frames[f][1]) # Shape(Frames[f][2])
       THEN /\ outcome' = "ValueError"
            /\ ema_score' = None
            /\ UNCHANGED <<result, fresh>>
       ELSE IF Len(Frames[f][1]) < HandJoints
       THEN /\ outcome' = "IndexError"
            /\ UNCHANGED <<ema_score, result, fresh>>
       ELSE LET r == ScoringResult(mode, ema_score, FrameTable[f])
            IN  /\ outcome' = "ok"
                /\ result' = r
                /\ ema_score' = Some(r.overall_score)
                /\ fresh' = FALSE

\* score_frame(user, expert, confidence_mask) for frame f of Frames
score_frame(f) ==
    LET user == Frames[f][1]
        expert == Frames[f][2]
        mask == Frames[f][3]
    IN  /\ ncalls < MaxCalls
        /\ ncalls' = ncalls + 1
        /\ call' = [op |-> "score_frame", frame |-> f]
        /\ mode' = mode
        /\ IF Shape(user) # Shape(expert)
           THEN /\ outcome' = "ValueError"
                /\ UNCHANGED <<ema_score, result, fresh>>
           ELSE IF Len(user) < HandJoints
           THEN \* compute_angular_error indexes joints up to 20
                /\ outcome' = "IndexError"
                /\ UNCHANGED <<ema_score, result, fresh>>
           ELSE LET r == ScoringResult(mode, ema_score, FrameTable[f])
                IN  /\ outcome' = "ok"
                    /\ result' = r
                    /\ ema_score' = Some(r.overall_score)
                    /\ fresh' = FALSE

\* reset that leaves ema_score as it is
reset_keeps_ema ==
    /\ ncalls < MaxCalls
    /\ ncalls' = ncalls + 1
    /\ call' = [op |-> "reset", frame |-> 0]
    /\ outcome' = "reset"
    /\ fresh' = TRUE
    /\ UNCHANGED <<mode, result, ema_score>>

reset ==
    /\ ncalls < MaxCalls
    /\ ncalls' = ncalls + 1
    /\ call' = [op |-> "reset", frame |-> 0]
    /\ ema_score' = None
    /\ outcome' = "reset"
    /\ fresh' = TRUE
    /\ UNCHANGED <<mode, result>>

-----------------------------------------------------------------------------
(* AlignmentEngine.  An angle is kept as its cosine and sine, that is, up   *)
(* to whole turns; Turn0 is the angle 0.                                    *)

Turn0 == [c |-> One, s |-> Zero]

\* atan2(v[2], v[1]) of a non-zero vector
Atan2(v) == LET len == Norm(v) IN [c |-> RDiv(v[1], len), s |-> RDiv(v[2], len)]

\* a - b
AngleSub(a, b) ==
    [c |-> RAdd(RMul(a.c, b.c), RMul(a.s, b.s)), s |-> RSub(RMul(a.s, b.c), RMul(a.c, b.s))]

AngleNeg(a) == [c |-> a.c, s |-> RNeg(a.s)]

\* 1e-6, the length below which a reference vector counts as degenerate
Tiny == Rat(1, 1000000)

HAND_ANCHORS == <<0, 5, 9>>
POSE_ANCHORS == <<11, 12, 23, 24>>

Identity3 == << <<One, Zero, Zero>>, <<Zero, One, Zero>>, <<Zero, Zero, One>> >>

\* [coords, conf]: the x, y columns and the optional confidence column
split_coords_conf(keypoints) ==
    LET cols == Shape(keypoints)[2]
    IN  [coords |-> [i \in 1..Len(keypoints) |-> SubSeq(keypoints[i], 1, 2)],
         conf |-> IF cols >= 4 THEN Some([i \in 1..Len(keypoints) |-> keypoints[i][4]])
                  ELSE IF cols >= 3 THEN Some([i \in 1..Len(keypoints) |-> keypoints[i][3]])
                  ELSE None]

confidence_mask(conf, anchor_indices, threshold) ==
    IF conf = None THEN [a \in 1..Len(anchor_indices) |-> TRUE]
    ELSE [a \in 1..Len(anchor_indices) |-> RLe(threshold, conf[1][anchor_indices[a] + 1])]

\* valid_mask.sum()
MaskSum(valid_mask) == Cardinality({a \in 1..Len(valid_mask) : valid_mask[a]})

\* rows[valid_mask]
RECURSIVE Masked(_, _, _)
Masked(rows, valid_mask, a) ==
    IF a > Len(rows) THEN <<>>
    ELSE (IF valid_mask[a] THEN <<rows[a]>> ELSE <<>>) \o Masked(rows, valid_mask, a + 1)

\* np.mean(points, axis=0) of a non-empty sequence of 2-d points
Centroid(points) ==
    <<RMean([i \in 1..Len(points) |-> points[i][1]]), RMean([i \in 1..Len(points) |-> points[i][2]])>>

\* the point p rotated by the angle rot: p @ rot_matrix.T
Rotate(p, rot) ==
    <<RSub(RMul(rot.c, p[1]), RMul(rot.s, p[2])), RAdd(RMul(rot.s, p[1]), RMul(rot.c, p[2]))>>

compute_anchor_transform(expert_anchors, user_anchors, valid_mask) ==
    LET exp_valid == Masked(expert_anchors, valid_mask, 1)
        usr_valid == Masked(user_anchors, valid_mask, 1)
        exp_center == Centroid(exp_valid)
        usr_center == Centroid(usr_valid)
        exp_scale == RMean([i \in 1..Len(exp_valid) |-> Norm(VSub(exp_valid[i], exp_center))])
        usr_scale == RMean([i \in 1..Len(usr_valid) |-> Norm(VSub(usr_valid[i], usr_center))])
        scale == IF RLt(Tiny, exp_scale) THEN RDiv(usr_scale, exp_scale) ELSE One
        rotation ==
            IF Len(exp_valid) >= 2
            THEN LET v_exp == VSub(exp_valid[2], exp_valid[1])
                     v_usr == VSub(usr_valid[2], usr_valid[1])
                 IN  IF RLt(Tiny, Norm(v_exp)) /\ RLt(Tiny, Norm(v_usr))
                     THEN AngleSub(Atan2(v_usr), Atan2(v_exp))
                     ELSE Turn0
            ELSE Turn0
    IN  [scale |-> scale,
         translation |-> VSub(usr_center, Rotate(VScale(exp_center, scale), rotation)),
         rotation |-> rotation]

build_matrix(scale, translation, rotation) ==
    << <<RMul(scale, rotation.c), RNeg(RMul(scale, rotation.s)), translation[1]>>,
       <<RMul(scale, rotation.s), RMul(scale, rotation.c), translation[2]>>,
       <<Zero, Zero, One>> >>

\* homogenous @ matrix.T, first two columns
affine_transform(points, matrix) ==
    [i \in 1..Len(points) |->
        <<RAdd(RAdd(RMul(matrix[1][1], points[i][1]), RMul(matrix[1][2], points[i][2])), matrix[1][3]),
          RAdd(RAdd(RMul(matrix[2][1], points[i][1]), RMul(matrix[2][2], points[i][2])), matrix[2][3])>>]

apply_similarity_transform(points, scale, translation, rotation) ==
    affine_transform(points, build_matrix(scale, translation, rotation))

\* the result returned when too few anchors are valid
IdentityAlignment(expert_coords) ==
    [aligned_expert |-> expert_coords,
     transform_matrix |-> Identity3,
     scale_factor |-> One,
     translation |-> <<Zero, Zero>>,
     rotation_angle |-> Turn0,
     alignment_quality |-> Zero]

\* align that falls back only when no anchor at all is valid
align_needs_one(expert, user, anchor_indices, confidence_threshold) ==
    LET u == split_coords_conf(user)
        e == split_coords_conf(expert)
        valid_mask == confidence_mask(u.conf, anchor_indices, confidence_threshold)
    IN  IF MaskSum(valid_mask) < 1
        THEN IdentityAlignment(e.coords)
        ELSE LET t == compute_anchor_transform(
                          [a \in 1..Len(anchor_indices) |-> Row(e.coords, anchor_indices[a])],
                          [a \in 1..Len(anchor_indices) |-> Row(u.coords, anchor_indices[a])],
                          valid_mask)
             IN  [aligned_expert |-> apply_similarity_transform(e.coords, t.scale, t.translation, t.rotation),
                  transform_matrix |-> build_matrix(t.scale, t.translation, t.rotation),
                  scale_factor |-> t.scale,
                  translation |-> t.translation,
                  rotation_angle |-> t.rotation,
                  alignment_quality |-> Rat(MaskSum(valid_mask), Len(valid_mask))]

\* align that reports the quality 1.0 whenever it computes a transform
align_quality_one(expert, user, anchor_indices, confidence_threshold) ==
    LET u == split_coords_conf(user)
        e == split_coords_conf(expert)
        valid_mask == confidence_mask(u.conf, anchor_indices, confidence_threshold)
    IN  IF MaskSum(valid_mask) < 2
        THEN IdentityAlignment(e.coords)
        ELSE LET t == compute_anchor_transform(
                          [a \in 1..Len(anchor_indices) |-> Row(e.coords, anchor_indices[a])],
                          [a \in 1..Len(anchor_indices) |-> Row(u.coords, anchor_indices[a])],
                          valid_mask)
             IN  [aligned_expert |-> apply_similarity_transform(e.coords, t.scale, t.translation, t.rotation),
                  transform_matrix |-> build_matrix(t.scale, t.translation, t.rotation),
                  scale_factor |-> t.scale,
                  translation |-> t.translation,
                  rotation_angle |-> t.rotation,
                  alignment_quality |-> One]

\* the common body of align_hands and align_pose
align(expert, user, anchor_indices, confidence_threshold) ==
    LET u == split_coords_conf(user)
        e == split_coords_conf(expert)
        valid_mask == confidence_mask(u.conf, anchor_indices, confidence_threshold)
    IN  IF MaskSum(valid_mask) < 2
        THEN IdentityAlignment(e.coords)
        ELSE LET t == compute_anchor_transform(
                          [a \in 1..Len(anchor_indices) |-> Row(e.coords, anchor_indices[a])],
                          [a \in 1..Len(anchor_indices) |-> Row(u.coords, anchor_indices[a])],
                          valid_mask)
             IN  [aligned_expert |-> apply_similarity_transform(e.coords, t.scale, t.translation, t.rotation),
                  transform_matrix |-> build_matrix(t.scale, t.translation, t.rotation),
                  scale_factor |-> t.scale,
                  translation |-> t.translation,
                  rotation_angle |-> t.rotation,
                  alignment_quality |-> Rat(MaskSum(valid_mask), Len(valid_mask))]

align_hands(expert_hand, user_hand, confidence_threshold) ==
    align(expert_hand, user_hand, HAND_ANCHORS, confidence_threshold)

align_pose(expert_pose, user_pose, confidence_threshold) ==
    align(expert_pose, user_pose, POSE_ANCHORS, confidence_threshold)

-----------------------------------------------------------------------------
(* CueMapper.  A template key is kept as the sequence of its words          *)
(* ("hand_too_high" is <<"hand", "too", "high">>), so that the substring    *)
(* tests of template_to_cue can be made on it.                              *)

POSITION_THRESHOLD == Rat(8, 100)
ANGLE_THRESHOLD == RInt(15)
SPREAD_THRESHOLD == Rat(1, 10)
TIMING_THRESHOLD == Rat(2, 10)

CUE_TEMPLATES ==
    (<<"hand", "too", "high">> :> "Lower your hand slightly") @@
    (<<"hand", "too", "low">> :> "Raise your hand") @@
    (<<"hand", "too", "left">> :> "Move hand to the right") @@
    (<<"hand", "too", "right">> :> "Move hand to the left") @@
    (<<"wrist", "rotate", "cw">> :> "Rotate wrist clockwise") @@
    (<<"wrist", "rotate", "ccw">> :> "Rotate wrist counter-clockwise") @@
    (<<"fingers", "too", "closed">> :> "Open your fingers wider") @@
    (<<"fingers", "too", "open">> :> "Close your fingers slightly") @@
    (<<"thumb", "position">> :> "Adjust your thumb position") @@
    (<<"index", "curl">> :> "Curl your index finger more") @@
    (<<"index", "extend">> :> "Extend your index finger") @@
    (<<"middle", "curl">> :> "Curl your middle finger") @@
    (<<"middle", "extend">> :> "Extend your middle finger") @@
    (<<"ring", "curl">> :> "Curl your ring finger") @@
    (<<"ring", "extend">> :> "Extend your ring finger") @@
    (<<"pinky", "curl">> :> "Curl your pinky") @@
    (<<"pinky", "extend">> :> "Extend your pinky") @@
    (<<"going", "too", "fast">> :> "Slow down a bit") @@
    (<<"going", "too", "slow">> :> "Try to keep up with the pace") @@
    (<<"almost", "there">> :> "Almost there! Small adjustment needed") @@
    (<<"perfect">> :> "Perfect! Keep it up!")

finger_names == <<"thumb", "index", "middle", "ring", "pinky">>

\* template_key.replace("_", " ").capitalize(), for the keys that are not in the table
FallbackText(key) ==
    IF key = <<"thumb", "curl">> THEN "Thumb curl"
    ELSE IF key = <<"thumb", "extend">> THEN "Thumb extend"
    ELSE "Unknown key"

\* "w" in template_key, for a word w
HasWord(key, w) == \E i \in 1..Len(key) : key[i] = w

\* "a_b" in template_key
HasWords(key, a, b) == \E i \in 1..(Len(key) - 1) : key[i] = a /\ key[i + 1] = b

template_to_cue(template_key, priority, affected_joints, direction) ==
    [text |-> IF template_key \in DOMAIN CUE_TEMPLATES THEN CUE_TEMPLATES[template_key]
              ELSE FallbackText(template_key),
     category |-> IF HasWords(template_key, "hand", "too") THEN "position"
                  ELSE IF HasWord(template_key, "rotate") THEN "rotation"
                  ELSE IF HasWord(template_key, "fingers") THEN "spread"
                  ELSE IF HasWord(template_key, "curl") \/ HasWord(template_key, "extend") THEN "curl"
                  ELSE IF HasWord(template_key, "slow") \/ HasWord(template_key, "fast") THEN "timing"
                  ELSE "global",
     priority |-> priority,
     affected_joints |-> affected_joints,
     direction |-> direction]

\* np.mean(kp, axis=0)
ColumnMeans(kp) == [c \in 1..Len(kp[1]) |-> RMean([i \in 1..Len(kp) |-> kp[i][c]])]

\* np.argmax(np.abs(v)): the first position of the largest absolute value
ArgMaxAbs(v) ==
    CHOOSE a \in 1..Len(v) :
        /\ \A b \in 1..Len(v) : RLe(RAbs(v[b]), RAbs(v[a]))
        /\ \A b \in 1..(a - 1) : RLt(RAbs(v[b]), RAbs(v[a]))

\* detect_position_error with a threshold of 0.2
detect_position_error_threshold_20(user, expert) ==
    LET diff == VSub(ColumnMeans(user), ColumnMeans(expert))
        axis == ArgMaxAbs(diff)
        direction == diff[axis]
    IN  IF RLt(RAbs(direction), Rat(2, 10)) THEN None
        ELSE IF axis = 2
        THEN Some(IF direction.n < 0 THEN <<<<"hand", "too", "low">>, "up">>
                  ELSE <<<<"hand", "too", "high">>, "down">>)
        ELSE Some(IF direction.n < 0 THEN <<<<"hand", "too", "right">>, "left">>
                  ELSE <<<<"hand", "too", "left">>, "right">>)

\* None, or Some(<<template key, direction>>)
detect_position_error(user, expert) ==
    LET diff == VSub(ColumnMeans(user), ColumnMeans(expert))
        axis == ArgMaxAbs(diff)
        direction == diff[axis]
    IN  IF RLt(RAbs(direction), POSITION_THRESHOLD) THEN None
        ELSE IF axis = 2
        THEN Some(IF direction.n < 0 THEN <<<<"hand", "too", "low">>, "up">>
                  ELSE <<<<"hand", "too", "high">>, "down">>)
        ELSE Some(IF direction.n < 0 THEN <<<<"hand", "too", "right">>, "left">>
                  ELSE <<<<"hand", "too", "left">>, "right">>)

\* np.degrees(np.arctan2(v[2], v[1])) for the eight compass directions and (0, 0),
\* and for the directions (-40, 9) and (-40, -9), where it is 167.32 and -167.32
\* degrees, kept as 167 and -167
BearingDeg(v) ==
    LET x == v[1].n
        y == v[2].n
    IN  IF x = 0 /\ y = 0 THEN 0
        ELSE CHOOSE b \in {0, 45, 90, 135, 167, 180, -167, -135, -90, -45} :
                \/ b = 167 /\ x < 0 /\ RMul(RInt(40), v[2]) = RMul(RInt(-9), v[1])
                \/ b = -167 /\ x < 0 /\ RMul(RInt(40), v[2]) = RMul(RInt(9), v[1])
                \/ b = 0 /\ x > 0 /\ y = 0
                \/ b = 45 /\ x > 0 /\ v[1] = v[2]
                \/ b = 90 /\ x = 0 /\ y > 0
                \/ b = 135 /\ x < 0 /\ v[1] = RNeg(v[2])
                \/ b = 180 /\ x < 0 /\ y = 0
                \/ b = -135 /\ x < 0 /\ v[1] = v[2]
                \/ b = -90 /\ x = 0 /\ y < 0
                \/ b = -45 /\ x > 0 /\ v[1] = RNeg(v[2])

detect_rotation_error(user, expert) ==
    LET vec_u == VSub(SubSeq(Row(user, 9), 1, 2), SubSeq(Row(user, 0), 1, 2))
        vec_e == VSub(SubSeq(Row(expert, 9), 1, 2), SubSeq(Row(expert, 0), 1, 2))
        delta == RInt(BearingDeg(vec_u) - BearingDeg(vec_e))
    IN  IF RLt(RAbs(delta), ANGLE_THRESHOLD) THEN None
        ELSE IF delta.n > 0 THEN Some(<<<<"wrist", "rotate", "ccw">>, "ccw">>)
        ELSE Some(<<<<"wrist", "rotate", "cw">>, "cw">>)

FINGERTIPS == <<4, 8, 12, 16, 20>>

avg_spread(points) ==
    RMean([i \in 1..(Len(FINGERTIPS) - 1) |->
        euclidean_distance(Row(points, FINGERTIPS[i]), Row(points, FINGERTIPS[i + 1]))])

\* None, or Some(template key)
detect_spread_error(user, expert) ==
    IF \E i \in 1..Len(FINGERTIPS) : FINGERTIPS[i] >= Len(user) THEN None
    ELSE IF RLt(avg_spread(expert), Tiny) THEN None
    ELSE LET ratio == RDiv(avg_spread(user), avg_spread(expert))
         IN  IF RLt(ratio, RSub(One, SPREAD_THRESHOLD)) THEN Some(<<"fingers", "too", "closed">>)
             ELSE IF RLt(RAdd(One, SPREAD_THRESHOLD), ratio) THEN Some(<<"fingers", "too", "open">>)
             ELSE None

\* np.degrees(x) = x * 180 / pi, with pi taken as 355/113
Degrees(x) == RMul(x, Rat(180 * 113, 355))

\* j in top_error_joints for some joint j of chain
HasTopJoint(chain, top_error_joints) ==
    \E i \in 1..Len(chain) : \E t \in 1..Len(top_error_joints) : top_error_joints[t] = chain[i]

\* delta of _curl_cues for the finger whose chain is FINGER_CHAINS[finger_idx]
curl_delta(user, expert, finger_idx) ==
    LET chain == FINGER_CHAINS[finger_idx]
        angle_user == compute_angle_at_joint(Row(user, chain[2]), Row(user, chain[3]), Row(user, chain[4]))
        angle_expert == compute_angle_at_joint(Row(expert, chain[2]), Row(expert, chain[3]), Row(expert, chain[4]))
    IN  Degrees(RSub(angle_user, angle_expert))

\* what generate_cues reads off the two skeletons
Detections(user, expert) ==
    [joints |-> Len(user),
     pos_error |-> detect_position_error(user, expert),
     rot_error |-> detect_rotation_error(user, expert),
     spread_error |-> detect_spread_error(user, expert),
     delta |-> [f \in 1..Len(FINGER_CHAINS) |-> curl_delta(user, expert, f)]]

RECURSIVE CurlCuesFrom(_, _, _)
CurlCuesFrom(det, top_error_joints, finger_idx) ==
    IF finger_idx > Len(FINGER_CHAINS) THEN <<>>
    ELSE LET chain == FINGER_CHAINS[finger_idx]
             delta == det.delta[finger_idx]
             found ==
                 IF ~HasTopJoint(chain, top_error_joints) THEN <<>>
                 ELSE IF RLt(RAbs(delta), ANGLE_THRESHOLD) THEN <<>>
                 ELSE <<template_to_cue(<<finger_names[finger_idx], IF delta.n < 0 THEN "curl" ELSE "extend">>,
                                        Rat(65, 100), chain, "None")>>
         IN  found \o CurlCuesFrom(det, top_error_joints, finger_idx + 1)

\* _curl_cues that goes over the fingers twice
curl_cues_twice(det, top_error_joints) ==
    CurlCuesFrom(det, top_error_joints, 1) \o CurlCuesFrom(det, top_error_joints, 1)

curl_cues(det, top_error_joints) == CurlCuesFrom(det, top_error_joints, 1)

\* get_positive_cue without the branch for a score of 95 or more
get_positive_cue_without_perfect(score) ==
    IF RLe(RInt(85), score)
    THEN Some([text |-> "Great job! Almost perfect!", category |-> "global", priority |-> Rat(3, 10),
               affected_joints |-> <<>>, direction |-> "None"])
    ELSE IF RLe(RInt(75), score)
    THEN Some([text |-> "Almost there! Small adjustment needed", category |-> "global",
               priority |-> Rat(2, 10), affected_joints |-> <<>>, direction |-> "None"])
    ELSE None

\* get_positive_cue with strict comparisons
get_positive_cue_strict(score) ==
    IF RLt(RInt(95), score)
    THEN Some([text |-> "Perfect! Keep it up!", category |-> "global", priority |-> Rat(5, 10),
               affected_joints |-> <<>>, direction |-> "None"])
    ELSE IF RLt(RInt(85), score)
    THEN Some([text |-> "Great job! Almost perfect!", category |-> "global", priority |-> Rat(3, 10),
               affected_joints |-> <<>>, direction |-> "None"])
    ELSE IF RLt(RInt(75), score)
    THEN Some([text |-> "Almost there! Small adjustment needed", category |-> "global",
               priority |-> Rat(2, 10), affected_joints |-> <<>>, direction |-> "None"])
    ELSE None

\* None, or Some(cue)
get_positive_cue(score) ==
    IF RLe(RInt(95), score)
    THEN Some([text |-> "Perfect! Keep it up!", category |-> "global", priority |-> Rat(5, 10),
               affected_joints |-> <<>>, direction |-> "None"])
    ELSE IF RLe(RInt(85), score)
    THEN Some([text |-> "Great job! Almost perfect!", category |-> "global", priority |-> Rat(3, 10),
               affected_joints |-> <<>>, direction |-> "None"])
    ELSE IF RLe(RInt(75), score)
    THEN Some([text |-> "Almost there! Small adjustment needed", category |-> "global",
               priority |-> Rat(2, 10), affected_joints |-> <<>>, direction |-> "None"])
    ELSE None

\* the cues appended by generate_cues before it deduplicates: lines 108-136.
\* det is Detections(user_keypoints, expert_keypoints); per_joint_errors is the
\* sequence of the values of the dict.
Findings(det, per_joint_errors, top_error_joints, timing_offset) ==
    LET avg_error == IF per_joint_errors # <<>> THEN RMean(per_joint_errors) ELSE Zero
        positive == get_positive_cue(error_to_score(avg_error))
    IN  (IF det.pos_error # None
         THEN <<template_to_cue(det.pos_error[1][1], Rat(9, 10), [i \in 1..det.joints |-> i - 1], "None")>>
         ELSE <<>>)
        \o (IF det.rot_error # None
            THEN <<template_to_cue(det.rot_error[1][1], Rat(8, 10), <<0>>, det.rot_error[1][2])>>
            ELSE <<>>)
        \o (IF det.spread_error # None
            THEN <<template_to_cue(det.spread_error[1], Rat(7, 10), FINGERTIPS, "None")>>
            ELSE <<>>)
        \o curl_cues(det, top_error_joints)
        \o (IF RLt(TIMING_THRESHOLD, timing_offset)
            THEN <<template_to_cue(<<"going", "too", "fast">>, Rat(6, 10), <<>>, "None")>>
            ELSE IF RLt(timing_offset, RNeg(TIMING_THRESHOLD))
            THEN <<template_to_cue(<<"going", "too", "slow">>, Rat(6, 10), <<>>, "None")>>
            ELSE <<>>)
        \o positive

\* deduplicate_cues that keeps every cue
deduplicate_nothing(cues) == cues

\* the cues whose text did not occur earlier in the list
deduplicate_cues(cues) ==
    LET kept == {i \in 1..Len(cues) : \A j \in 1..(i - 1) : cues[j].text # cues[i].text}
        pick[i \in 0..Len(cues)] ==
            IF i = 0 THEN <<>> ELSE pick[i - 1] \o (IF i \in kept THEN <<cues[i]>> ELSE <<>>)
    IN  pick[Len(cues)]

\* sorted(cues, key=lambda c: c.priority, reverse=True)
SortByPriority(cues) ==
    LET sorted == SortDesc([i \in 1..Len(cues) |-> [k |-> cues[i].priority, v |-> cues[i]]])
    IN  [i \in 1..Len(sorted) |-> sorted[i].v]

\* sorted(cues, key=lambda c: c.priority): ascending
SortByPriorityAscending(cues) ==
    LET sorted == SortDesc([i \in 1..Len(cues) |-> [k |-> RNeg(cues[i].priority), v |-> cues[i]]])
    IN  [i \in 1..Len(sorted) |-> sorted[i].v]

\* generate_cues that returns every cue it found
generate_cues_untruncated(det, per_joint_errors, top_error_joints, timing_offset, max_cues) ==
    SortByPriority(deduplicate_cues(Findings(det, per_joint_errors, top_error_joints, timing_offset)))

\* generate_cues that sorts by ascending priority
generate_cues_ascending(det, per_joint_errors, top_error_joints, timing_offset, max_cues) ==
    Slice(SortByPriorityAscending(deduplicate_cues(
              Findings(det, per_joint_errors, top_error_joints, timing_offset))),
          max_cues)

generate_cues(det, per_joint_errors, top_error_joints, timing_offset, max_cues) ==
    Slice(SortByPriority(deduplicate_cues(
              Findings(det, per_joint_errors, top_error_joints, timing_offset))),
          max_cues)

-----------------------------------------------------------------------------
(* Inputs of the alignment engine.  The anchors of the input skeletons lie  *)
(* on one line, so that every centroid distance is rational.                *)

AlignHand == WithJoints(Hand(50, 50), 5, Pt(50, 55), 5, Pt(50, 55))
AlignPose == WithJoints(Pose(50, 50), 23, Pt(50, 40), 24, Pt(50, 30))

\* kp scaled by k, rotated by rot and moved by (dx, dy) hundredths
Similar(kp, k, rot, dx, dy) ==
    [i \in 1..Len(kp) |-> VAdd(VScale(Rotate(kp[i], rot), k), Pt(dx, dy))]

Collapsed(kp) == [i \in 1..Len(kp) |-> Pt(20, 20)]

UserGeometries == 1..4

UserGeometry(kp, g) ==
    IF g = 1 THEN kp
    ELSE IF g = 2 THEN Similar(kp, RInt(2), [c |-> Zero, s |-> One], 10, 5)
    ELSE IF g = 3 THEN Similar(kp, Rat(1, 2), [c |-> Rat(3, 5), s |-> Rat(4, 5)], -20, 0)
    ELSE Collapsed(kp)

ConfLevels == {Zero, Rat(1, 2), Rat(9, 10)}
Thresholds == {Rat(1, 2), Rat(7, 10)}

AnchorsOf(kind) == IF kind = "hand" THEN HAND_ANCHORS ELSE POSE_ANCHORS

\* position of joint idx in anchors, 0 if it is no anchor
AnchorPos(anchors, idx) ==
    IF \E a \in 1..Len(anchors) : anchors[a] = idx
    THEN CHOOSE a \in 1..Len(anchors) : anchors[a] = idx
    ELSE 0

\* the last column(s) of the user array: cols = 4 appends z = 0 and the confidence,
\* cols = 3 appends the value as z, cols = 2 appends nothing
WithColumns(kp, cols, anchors, conf) ==
    LET v(i) == IF AnchorPos(anchors, i - 1) = 0 THEN One ELSE conf[AnchorPos(anchors, i - 1)]
    IN  [i \in 1..Len(kp) |->
            IF cols = 4 THEN kp[i] \o <<Zero, v(i)>>
            ELSE IF cols = 3 THEN kp[i] \o <<v(i)>>
            ELSE kp[i]]

AlignInputs ==
    {[kind |-> k, geom |-> g, cols |-> c, conf |-> cf, threshold |-> t] :
        k \in {"hand"}, g \in UserGeometries, c \in {3, 4},
        cf \in [1..Len(HAND_ANCHORS) -> ConfLevels], t \in Thresholds}
    \cup
    {[kind |-> k, geom |-> g, cols |-> c, conf |-> cf, threshold |-> t] :
        k \in {"pose"}, g \in {1, 2}, c \in {4},
        cf \in [1..Len(POSE_ANCHORS) -> ConfLevels], t \in Thresholds}
    \cup
    {[kind |-> k, geom |-> g, cols |-> 2, conf |-> <<>>, threshold |-> t] :
        k \in {"hand", "pose"}, g \in UserGeometries, t \in Thresholds}

\* the expert array carries a z column, the user array the columns of the input
ExpertOf(in) == WithZ(IF in.kind = "hand" THEN AlignHand ELSE AlignPose)
UserOf(in) ==
    WithColumns(UserGeometry(IF in.kind = "hand" THEN AlignHand ELSE AlignPose, in.geom),
                in.cols, AnchorsOf(in.kind), in.conf)

NoAlignCall == [kind |-> "none", geom |-> 0, cols |-> 0, conf |-> <<>>, threshold |-> Zero]

AlignIdle == align_in = NoAlignCall /\ align_out = IdentityAlignment(<<>>)

\* one call of align_hands or align_pose
Align(in) ==
    /\ align_in = NoAlignCall
    /\ align_in' = in
    /\ align_out' = IF in.kind = "hand"
                    THEN align_hands(ExpertOf(in), UserOf(in), in.threshold)
                    ELSE align_pose(ExpertOf(in), UserOf(in), in.threshold)


-----------------------------------------------------------------------------
(* Inputs of the cue mapper *)

\* kp with every x offset from the wrist multiplied by num/den
Widened(kp, num, den) ==
    [i \in 1..Len(kp) |->
        <<RAdd(kp[1][1], RMul(RSub(kp[i][1], kp[1][1]), Rat(num, den))), kp[i][2]>>]

\* kp turned by 90 degrees counter-clockwise about the wrist
Rotated90(kp) ==
    [i \in 1..Len(kp) |->
        <<RSub(kp[1][1], RSub(kp[i][2], kp[1][2])), RAdd(kp[1][2], RSub(kp[i][1], kp[1][1]))>>]

\* kp turned about the wrist by the angle of cosine c / den and sine s / den
Turned(kp, c, s, den) ==
    [i \in 1..Len(kp) |->
        LET dx == RSub(kp[i][1], kp[1][1])
            dy == RSub(kp[i][2], kp[1][2])
        IN  <<RAdd(kp[1][1], RSub(RMul(Rat(c, den), dx), RMul(Rat(s, den), dy))),
              RAdd(kp[1][2], RAdd(RMul(Rat(s, den), dx), RMul(Rat(c, den), dy)))>>]

\* kp with finger f (1..5) bent by 90 degrees at its second joint
Curled(kp, f) ==
    LET j1 == Row(kp, 4 * (f - 1) + 1)
        j2 == Row(kp, 4 * (f - 1) + 2)
        d == VSub(j2, j1)
        bent == <<RAdd(j2[1], d[2]), RSub(j2[2], d[1])>>
    IN  WithJoints(kp, 4 * (f - 1) + 3, bent, 4 * (f - 1) + 3, bent)

\* the base hand with its middle finger bent by 14 degrees at joint 10
SlightBend(cx, cy) == WithJoints(Hand(cx, cy), 11, Pt(cx + 2, cy + 28), 11, Pt(cx + 2, cy + 28))

\* <<user, expert>>
CueGeometry ==
    << <<Hand(50, 50), Hand(50, 50)>>,
       <<Shifted(Hand(50, 50), 15, 0), Hand(50, 50)>>,
       <<Shifted(Hand(50, 50), 0, -10), Hand(50, 50)>>,
       <<Shifted(Hand(50, 50), 5, 0), Hand(50, 50)>>,
       <<Widened(Hand(50, 50), 3, 2), Hand(50, 50)>>,
       <<Widened(Hand(50, 50), 1, 2), Hand(50, 50)>>,
       <<Rotated90(Hand(50, 50)), Hand(50, 50)>>,
       <<Curled(Curled(Hand(50, 50), 1), 3), Curled(Hand(50, 50), 4)>>,
       <<Rotated90(Curled(Curled(Widened(Shifted(Hand(50, 50), -15, 0), 3, 2), 1), 3)),
         Curled(Hand(50, 50), 4)>>,
       <<SlightBend(50, 50), Hand(50, 50)>>,
       <<Hand(50, 50), SlightBend(50, 50)>>,
       <<Rotated90(Hand(50, 50)), Turned(Rotated90(Hand(50, 50)), 40, 9, 41)>>,
       <<Turned(Rotated90(Hand(50, 50)), 40, 9, 41), Rotated90(Hand(50, 50))>>,
       <<Turned(Rotated90(Hand(50, 50)), 40, -9, 41), Turned(Rotated90(Hand(50, 50)), 40, 9, 41)>> >>

\* Detections, tabulated per geometry
DetectionTable ==
    [g \in 1..Len(CueGeometry) |-> Detections(CueGeometry[g][1], CueGeometry[g][2])]

\* the values of per_joint_errors
CueErrors ==
    << <<>>, <<Rat(2, 100), Rat(2, 100)>>, <<Rat(4, 100)>>, <<Rat(1, 10), Rat(3, 10)>>,
       <<Rat(1, 100)>>, <<Rat(2, 100), Rat(4, 100)>>, <<Rat(5, 100)>>, <<Rat(51, 1000)>> >>

CueTopJoints == << <<>>, <<0>>, <<12, 3>>, <<16>> >>

CueTimings == {Rat(-3, 10), Zero, Rat(3, 10)}

MaxCues == 3

MaxCueValues == {-2, -1} \cup 0..MaxCues

GenerateInputs ==
    [op : {"generate_cues"}, geom : 1..Len(CueGeometry), errs : 1..Len(CueErrors),
     top : 1..Len(CueTopJoints), timing : CueTimings, max_cues : MaxCueValues]

\* the cues before deduplication of the call in
FindingsOf(in) ==
    Findings(DetectionTable[in.geom], CueErrors[in.errs], CueTopJoints[in.top], in.timing)

\* cues offered to deduplicate_cues: two of them have the same text
CuePool ==
    {template_to_cue(<<"hand", "too", "low">>, Rat(9, 10), <<0>>, "None"),
     template_to_cue(<<"hand", "too", "low">>, Rat(4, 10), <<1>>, "None"),
     template_to_cue(<<"going", "too", "fast">>, Rat(6, 10), <<>>, "None"),
     template_to_cue(<<"thumb", "curl">>, Rat(65, 100), <<0, 1, 2, 3, 4>>, "None")}

MaxListLen == 3

CueLists == UNION {[1..n -> CuePool] : n \in 0..MaxListLen}

NoCueCall == [op |-> "none"]

CueIdle == cue_in = NoCueCall /\ cue_out = <<>>

\* one call of generate_cues
GenerateCues(in) ==
    /\ cue_in = NoCueCall
    /\ cue_in' = in
    /\ cue_out' = generate_cues(DetectionTable[in.geom], CueErrors[in.errs],
                                CueTopJoints[in.top], in.timing, in.max_cues)

\* one call of deduplicate_cues
DeduplicateCues(cues) ==
    /\ cue_in = NoCueCall
    /\ cue_in' = [op |-> "deduplicate_cues", cues |-> cues]
    /\ cue_out' = deduplicate_cues(cues)

-----------------------------------------------------------------------------
(* GeminiCoach.  A text is the sequence of its pieces, "." being a piece of  *)
(* its own; a cue or a sentence is one piece.                                *)

\* s.strip() for the pieces used here
Strip(s) ==
    IF s \in {"", " ", "\n"} THEN ""
    ELSE IF s = " Nice work" THEN "Nice work"
    ELSE IF s = "Raise your hand " THEN "Raise your hand"
    ELSE s

\* text.split("."): the pieces between the periods ("" where there is none)
RECURSIVE SplitFrom(_, _, _, _)
SplitFrom(text, i, current, done) ==
    IF i > Len(text) THEN Append(done, current)
    ELSE IF text[i] = "." THEN SplitFrom(text, i + 1, "", Append(done, current))
    ELSE SplitFrom(text, i + 1, text[i], done)

SplitPeriods(text) == SplitFrom(text, 1, "", <<>>)

\* [s.strip() for s in text.split(".") if s.strip()]
Sentences(text) ==
    LET parts == SplitPeriods(text)
        pick[i \in 0..Len(parts)] ==
            IF i = 0 THEN <<>>
            ELSE pick[i - 1] \o (IF Strip(parts[i]) # "" THEN <<Strip(parts[i])>> ELSE <<>>)
    IN  pick[Len(parts)]

CoachingResponse(primary_cue, secondary_cue, encouragement) ==
    [primary_cue |-> primary_cue, secondary_cue |-> secondary_cue,
     encouragement |-> encouragement, should_speak |-> TRUE]

parse_response(response_text, request) ==
    LET sentences == Sentences(response_text)
        primary == IF sentences # <<>> THEN <<sentences[1], ".">>
                   ELSE IF request.deterministic_cues # <<>> THEN <<request.deterministic_cues[1]>>
                   ELSE <<"Keep practicing!">>
        secondary == IF Len(sentences) > 1 THEN Some(<<sentences[2], ".">>) ELSE None
        encouragement == IF request.current_score >= 90 THEN Some("Perfect!")
                         ELSE IF request.current_score >= 80 /\ request.improvement_trend > 0
                         THEN Some("You're getting it!")
                         ELSE None
    IN  CoachingResponse(primary, secondary, encouragement)

fallback_response(request) ==
    CoachingResponse(
        IF request.deterministic_cues # <<>> THEN <<request.deterministic_cues[1]>>
        ELSE <<"Keep practicing!">>,
        IF Len(request.deterministic_cues) > 1 THEN Some(<<request.deterministic_cues[2]>>) ELSE None,
        None)

Returned(response) == [raised |-> "none", response |-> response]
Raised(exception) == [raised |-> exception, response |-> <<>>]

\* generate_coaching whose only handler is the one for asyncio.TimeoutError
generate_coaching_timeout_only(request, event) ==
    IF event.kind = "timeout" THEN Returned(fallback_response(request))
    ELSE IF event.kind = "reply" THEN Returned(parse_response(event.text, request))
    ELSE Raised(event.kind)

\* what generate_coaching gives its caller when the collaborator does event:
\*   "prompt_raises"   _build_prompt raises
\*   "timeout"         wait_for raises asyncio.TimeoutError
\*   "raises"          generate_content raises
\*   "not_text"        the reply is not a string, so _parse_response raises
\*   "reply"           the reply is event.text
generate_coaching(request, event) ==
    IF event.kind = "timeout" THEN Returned(fallback_response(request))
    ELSE IF event.kind = "reply" THEN Returned(parse_response(event.text, request))
    ELSE Returned(fallback_response(request))

(* Inputs of the coach *)

CoachCues == {"Raise your hand", "Rotate wrist clockwise"}

MaxDeterministicCues == 2

CoachRequests ==
    [deterministic_cues : UNION {[1..n -> CoachCues] : n \in 0..MaxDeterministicCues},
     current_score : {70, 85, 95}, improvement_trend : {-1, 1}]

ReplyTexts ==
    {<<>>, <<" ">>, <<"Raise your hand ">>, <<"Raise your hand", ".">>,
     <<"Raise your hand", ".", " Nice work", ".">>, <<".", "\n", ".", " Nice work">>,
     <<"Raise your hand", ".", " ", ".", " Nice work", ".", "Keep going", ".">>}

CoachEvents ==
    {[kind |-> k, text |-> <<>>] : k \in {"timeout", "raises", "not_text"}}
    \cup {[kind |-> "reply", text |-> t] : t \in ReplyTexts}

NoRequest == [deterministic_cues |-> <<>>, current_score |-> 0, improvement_trend |-> 0]
NoEvent == [kind |-> "none", text |-> <<>>]
NoCoachResult == Raised("none")

CoachIdle ==
    /\ coach_pc = "idle"
    /\ coach_request = NoRequest
    /\ coach_event = NoEvent
    /\ coach_result = NoCoachResult

\* generate_coaching is called and builds its prompt; it then awaits the reply
StartCoaching(request) ==
    /\ coach_pc = "idle"
    /\ coach_request' = request
    /\ coach_pc' = "awaiting"
    /\ UNCHANGED <<coach_event, coach_result>>

\* generate_coaching is called and _build_prompt raises
StartCoachingPromptFails(request) ==
    /\ coach_pc = "idle"
    /\ coach_request' = request
    /\ coach_event' = [kind |-> "prompt_raises", text |-> <<>>]
    /\ coach_result' = generate_coaching(request, coach_event')
    /\ coach_pc' = "done"

\* the await ends: with a reply, an exception of the collaborator, or the timeout
FinishCoaching(event) ==
    /\ coach_pc = "awaiting"
    /\ coach_event' = event
    /\ coach_result' = generate_coaching(coach_request, event)
    /\ coach_pc' = "done"
    /\ UNCHANGED coach_request

-----------------------------------------------------------------------------
(* Normalizer.  A rotation is kept as its <<cosine, sine>>, as in the        *)
(* alignment engine.                                                         *)

HAND_WRIST == 0
HAND_MIDDLE_TIP == 12
HAND_MIDDLE_MCP == 9
POSE_LEFT_SHOULDER == 11
POSE_RIGHT_SHOULDER == 12
POSE_LEFT_HIP == 23
POSE_RIGHT_HIP == 24

\* 1e-8, added to the scale by invert_transform
ScaleEpsilon == Rat(1, 100000000)

\* keypoints[:, :2]
XY(keypoints) == [i \in 1..Len(keypoints) |-> SubSeq(keypoints[i], 1, 2)]

compute_reference_length_hand(keypoints) ==
    Norm(VSub(XY(keypoints)[HAND_MIDDLE_TIP + 1], XY(keypoints)[HAND_WRIST + 1]))

compute_reference_length_pose(keypoints) ==
    Norm(VSub(XY(keypoints)[POSE_RIGHT_SHOULDER + 1], XY(keypoints)[POSE_LEFT_SHOULDER + 1]))

\* -np.arctan2(vec[1], vec[0]) if np.linalg.norm(vec) > 1e-6 else 0.0
RotationOnto(vec) == IF RLt(Tiny, Norm(vec)) THEN AngleNeg(Atan2(vec)) ELSE Turn0

normalize_hand(keypoints, target_scale) ==
    LET pts == XY(keypoints)
        translation == VScale(Row(pts, HAND_WRIST), RInt(-1))
        translated == [i \in 1..Len(pts) |-> VAdd(pts[i], translation)]
        ref_len == compute_reference_length_hand(pts)
        scale == IF RLt(Tiny, ref_len) THEN RDiv(target_scale, ref_len) ELSE One
        scaled == [i \in 1..Len(pts) |-> VScale(translated[i], scale)]
        vec == VScale(VAdd(Row(pts, HAND_MIDDLE_MCP), translation), scale)
        rotation == RotationOnto(vec)
    IN  [normalized |-> [i \in 1..Len(pts) |-> Rotate(scaled[i], rotation)],
         params |-> [translation |-> translation, scale |-> scale, rotation |-> rotation]]

normalize_pose(keypoints, target_scale) ==
    LET pts == XY(keypoints)
        hip_center == VScale(VAdd(Row(pts, POSE_LEFT_HIP), Row(pts, POSE_RIGHT_HIP)), Rat(1, 2))
        translation == VScale(hip_center, RInt(-1))
        translated == [i \in 1..Len(pts) |-> VAdd(pts[i], translation)]
        ref_len == compute_reference_length_pose(pts)
        scale == IF RLt(Tiny, ref_len) THEN RDiv(target_scale, ref_len) ELSE One
        scaled == [i \in 1..Len(pts) |-> VScale(translated[i], scale)]
        vec == VSub(Row(scaled, POSE_RIGHT_SHOULDER), Row(scaled, POSE_LEFT_SHOULDER))
        rotation == RotationOnto(vec)
    IN  [normalized |-> [i \in 1..Len(pts) |-> Rotate(scaled[i], rotation)],
         params |-> [translation |-> translation, scale |-> scale, rotation |-> rotation]]

apply_transform(keypoints, transform_params) ==
    LET pts == XY(keypoints)
    IN  [i \in 1..Len(pts) |->
            VSub(Rotate(VScale(pts[i], transform_params.scale), transform_params.rotation),
                 transform_params.translation)]

invert_transform(keypoints, transform_params) ==
    LET pts == XY(keypoints)
        divisor == RAdd(transform_params.scale, ScaleEpsilon)
    IN  [i \in 1..Len(pts) |->
            VSub(VScale(Rotate(pts[i], AngleNeg(transform_params.rotation)), RDiv(One, divisor)),
                 transform_params.translation)]

(* Inputs of the normalizer: skeletons with integer coordinates *)

\* a hand with its wrist at w whose middle finger points along d, m per joint
HandAt(w, m, d) ==
    [i \in 1..HandJoints |->
        IF i = 1 THEN <<RInt(w[1]), RInt(w[2])>>
        ELSE LET f == ((i - 2) \div 4) + 1
                 k == ((i - 2) % 4) + 1
             IN  <<RInt(w[1] + k * m * (d[1] + f - 3)), RInt(w[2] + k * m * d[2])>>]

\* a body whose left shoulder is at w and whose shoulder line runs along d;
\* its hips lie below w
PoseAt(w, m, d) ==
    [i \in 1..PoseJoints |->
        IF i - 1 = POSE_LEFT_SHOULDER THEN <<RInt(w[1]), RInt(w[2])>>
        ELSE IF i - 1 = POSE_RIGHT_SHOULDER
        THEN <<RInt(w[1] + 4 * m * d[1]), RInt(w[2] + 4 * m * d[2])>>
        ELSE IF i - 1 = POSE_LEFT_HIP THEN <<RInt(w[1] - m), RInt(w[2] - 2 * m)>>
        ELSE IF i - 1 = POSE_RIGHT_HIP THEN <<RInt(w[1] + m), RInt(w[2] - 2 * m)>>
        ELSE <<RInt(w[1] + (i % 4) * m), RInt(w[2] + (i % 3) * m)>>]

NormWrists == {<<0, 0>>, <<2, 1>>, <<1, 3>>}
NormDirections == {<<1, 0>>, <<0, 1>>, <<0, -1>>, <<3, 4>>, <<-4, 3>>}

\* 1.0 (the default), 2.0 and 1e-6
TargetScales == {One, RInt(2), Rat(1, 1000000)}

\* inputs with d = (0, 0) are a hand collapsed onto its wrist and a body whose
\* shoulders coincide; folded inputs are hands whose middle finger is folded back
\* so that its tip lies on the wrist
NormInputs ==
    [kind : {"hand", "pose"}, w : NormWrists, m : {1}, d : NormDirections,
     target_scale : TargetScales, folded : {FALSE}]
    \cup [kind : {"hand"}, w : {<<100, 200>>}, m : {100}, d : {<<0, 1>>}, target_scale : {One},
          folded : {FALSE}]
    \cup [kind : {"hand", "pose"}, w : {<<2, 1>>}, m : {1}, d : {<<0, 0>>},
          target_scale : {One, RInt(2)}, folded : {FALSE}]
    \cup [kind : {"hand"}, w : {<<2, 1>>}, m : {1}, d : {<<1, 0>>, <<0, 1>>, <<0, -1>>},
          target_scale : {One, RInt(2)}, folded : {TRUE}]

\* HandAt(w, 1, d) with the middle finger folded back at joint 10: joint 11 lies
\* on joint 9 and the tip (joint 12) on the wrist
FoldedAt(w, d) ==
    [i \in 1..HandJoints |->
        IF i - 1 = HAND_MIDDLE_TIP THEN <<RInt(w[1]), RInt(w[2])>>
        ELSE IF i - 1 = HAND_MIDDLE_TIP - 1 THEN HandAt(w, 1, d)[HAND_MIDDLE_MCP + 1]
        ELSE HandAt(w, 1, d)[i]]

SkeletonOf(in) ==
    IF in.folded THEN FoldedAt(in.w, in.d)
    ELSE IF in.kind = "hand" THEN HandAt(in.w, in.m, in.d) ELSE PoseAt(in.w, in.m, in.d)

\* the skeletons given to apply_transform after normalize(SkeletonOf(in)):
\* the same skeleton, and one with other joint positions
ApplyInputs(in) ==
    IF in.m # 1 THEN {}
    ELSE {SkeletonOf(in),
          IF in.kind = "hand" THEN HandAt(<<1, 1>>, 1, <<1, 0>>) ELSE PoseAt(<<1, 1>>, 1, <<1, 0>>)}

NoNormCall ==
    [kind |-> "none", w |-> <<0, 0>>, m |-> 0, d |-> <<0, 0>>, target_scale |-> Zero,
     folded |-> FALSE]
NoParams == [translation |-> <<Zero, Zero>>, scale |-> One, rotation |-> Turn0]

NormIdle ==
    /\ norm_in = NoNormCall
    /\ norm_canon = <<>>
    /\ norm_params = NoParams
    /\ norm_y = <<>>
    /\ norm_cur = <<>>
    /\ norm_trace = <<>>

\* normalize_hand or normalize_pose of a skeleton
Normalize(in) ==
    /\ norm_trace = <<>>
    /\ LET out == IF in.kind = "hand" THEN normalize_hand(SkeletonOf(in), in.target_scale)
                  ELSE normalize_pose(SkeletonOf(in), in.target_scale)
       IN  /\ norm_canon' = out.normalized
           /\ norm_cur' = out.normalized
           /\ norm_params' = out.params
    /\ norm_in' = in
    /\ norm_trace' = <<"normalize">>
    /\ UNCHANGED norm_y

\* apply_transform of a skeleton with the params normalize returned
ApplyTransform(y) ==
    /\ norm_trace = <<"normalize">>
    /\ y \in ApplyInputs(norm_in)
    /\ norm_y' = y
    /\ norm_cur' = apply_transform(y, norm_params)
    /\ norm_trace' = Append(norm_trace, "apply")
    /\ UNCHANGED <<norm_in, norm_canon, norm_params>>

\* invert_transform of the array the last call returned
InvertTransform ==
    /\ norm_trace \in {<<"normalize">>, <<"normalize", "apply">>}
    /\ norm_cur' = invert_transform(norm_cur, norm_params)
    /\ norm_trace' = Append(norm_trace, "invert")
    /\ UNCHANGED <<norm_in, norm_canon, norm_params, norm_y>>

(* The feedback router, POST /api/feedback/analyze.  analyze_feedback is a  *)
(* coroutine whose body holds no await: the event loop runs one call from   *)
(* its first statement to its return before it starts another one.  The     *)
(* arrays are float32 in the source and exact rationals here.  A value that *)
(* the source binds to a local and reads several times is bound here as the *)
(* element of a singleton set, so that it is computed once.                 *)

\* a hand whose index finger lies along the middle finger: the anchors 0, 5, 9
\* are on one line and every finger is straight
SessionHand ==
    [i \in 1..HandJoints |->
        IF i - 1 \in 5..7 THEN Pt(50, 55 + 10 * (i - 6))
        ELSE IF i - 1 = 8 THEN Pt(50, 90)
        ELSE HandJoint(50, 50, i - 1)]

SessionPose == AlignPose

\* kp with joint idx moved by (dx, dy) hundredths
Moved(kp, idx, dx, dy) ==
    [i \in 1..Len(kp) |-> IF i = idx + 1 THEN VAdd(kp[i], Pt(dx, dy)) ELSE kp[i]]

\* confidence 2/10 for joint 11 and 9/10 for every other joint
LowJoint11(n) == [i \in 1..n |-> IF i - 1 = 11 THEN Rat(2, 10) ELSE Rat(9, 10)]

\* FeedbackRequest without session_id and reset_ema, with the defaults of the
\* fields that are left out
Payload(user, expert, keypoint_type, normalize) ==
    [user_keypoints |-> user, expert_keypoints |-> expert, keypoint_type |-> keypoint_type,
     normalize |-> normalize, confidence_threshold |-> Rat(5, 10), timing_offset |-> Zero,
     max_cues |-> 2]

Payloads ==
    << Payload(SessionHand, SessionHand, "hand", TRUE),
       Payload(Moved(SessionHand, 11, 0, 5), SessionHand, "hand", FALSE),
       Payload(Moved(SessionHand, 11, 0, 8), SessionHand, "hand", FALSE),
       Payload(Moved(SessionPose, 30, 30, 40), SessionPose, "pose", FALSE),
       Payload(SessionPose, SessionPose, "pose", TRUE),
       Payload(WithZ(SessionHand), WithZ(SessionHand), "hand", TRUE),
       Payload(WithConf(Moved(SessionHand, 11, 0, 5), LowJoint11(HandJoints)), SessionHand, "hand", FALSE),
       Payload(Short(50, 50), SessionHand, "hand", TRUE),
       Payload(SubSeq(SessionHand, 1, 12), SubSeq(SessionHand, 1, 12), "hand", FALSE) >>

\* the session keys; "" stands for a request without session_id
SessionIds == {"a", "b"}

\* _to_array raises ValueError
_to_array_raises(points) == Len(Shape(points)) # 2 \/ Shape(points)[2] < 2

_confidence_mask(points, threshold) ==
    LET cols == Shape(points)[2]
    IN  IF cols >= 4 THEN Some([i \in 1..Len(points) |-> RLe(threshold, points[i][4])])
        ELSE IF cols >= 3 THEN Some([i \in 1..Len(points) |-> RLe(threshold, points[i][3])])
        ELSE None

NoAlignmentPayload == [scale |-> One, translation |-> <<Zero, Zero>>, rotation |-> Turn0, quality |-> Zero]

\* the normalized skeleton of lines 138-143
Normalized(coords, hand) ==
    IF hand THEN normalize_hand(coords, One).normalized ELSE normalize_pose(coords, One).normalized

\* what lines 123-148 leave when nothing was raised
PreparedInputs(payload, alignment, normalized) ==
    [raised |-> "",
     alignment |-> [scale |-> alignment.scale_factor,
                    translation |-> alignment.translation,
                    rotation |-> alignment.rotation_angle,
                    quality |-> alignment.alignment_quality],
     mask |-> _confidence_mask(payload.user_keypoints, payload.confidence_threshold),
     score_input_user |->
         IF payload.normalize THEN normalized[1] ELSE XY(payload.user_keypoints),
     score_input_expert |->
         IF payload.normalize THEN normalized[2] ELSE alignment.aligned_expert]

\* lines 123-148 of analyze_feedback: what the handler computes before it
\* touches an engine.  raised is "" when nothing was raised.
Prepared(payload) ==
    LET user_raw == payload.user_keypoints
        expert_raw == payload.expert_keypoints
        hand == payload.keypoint_type = "hand"
        anchors == IF hand THEN HAND_ANCHORS ELSE POSE_ANCHORS
        needed == IF hand THEN HAND_MIDDLE_TIP ELSE POSE_RIGHT_HIP
        failed(exc) == [raised |-> exc, alignment |-> NoAlignmentPayload, mask |-> None,
                        score_input_user |-> <<>>, score_input_expert |-> <<>>]
    IN  IF _to_array_raises(user_raw) \/ _to_array_raises(expert_raw) THEN failed("ValueError")
        ELSE IF Len(user_raw) # Len(expert_raw) THEN failed("ValueError")
        ELSE IF \E a \in 1..Len(anchors) : anchors[a] >= Len(user_raw) THEN failed("IndexError")
        ELSE IF payload.normalize /\ needed >= Len(user_raw) THEN failed("IndexError")
        ELSE CHOOSE prep \in
                 {PreparedInputs(payload, alignment, normalized) :
                      alignment \in
                          {IF hand
                           THEN align_hands(expert_raw, user_raw, payload.confidence_threshold)
                           ELSE align_pose(expert_raw, user_raw, payload.confidence_threshold)},
                      normalized \in
                          {IF payload.normalize
                           THEN [k \in 1..2 |->
                                    Normalized(XY(IF k = 1 THEN user_raw ELSE expert_raw), hand)]
                           ELSE <<>>}} : TRUE

\* the exception score_frame raises on the prepared inputs, "" if none
ScoreRaises(prep) ==
    IF Shape(prep.score_input_user) # Shape(prep.score_input_expert) THEN "ValueError"
    ELSE IF Len(prep.score_input_user) < HandJoints THEN "IndexError"
    ELSE ""

\* Prepared, tabulated per payload
PreparedTable == [p \in 1..Len(Payloads) |-> Prepared(Payloads[p])]

\* what score_frame and generate_cues compute from the prepared inputs
\* whatever the engine
EngineFree(prep, scorable) ==
    [raised |-> prep.raised,
     alignment |-> prep.alignment,
     score_raises |-> IF prep.raised = "" /\ ~scorable THEN ScoreRaises(prep) ELSE "",
     fe |-> IF scorable
            THEN FrameErrors(prep.score_input_user, prep.score_input_expert, prep.mask)
            ELSE <<>>,
     det |-> IF scorable
             THEN Detections(prep.score_input_user, prep.score_input_expert)
             ELSE <<>>]

\* EngineFree, tabulated per payload
PayloadTable ==
    [p \in 1..Len(Payloads) |->
        CHOOSE t \in {EngineFree(prep, prep.raised = "" /\ ScoreRaises(prep) = "") :
                          prep \in {PreparedTable[p]}} : TRUE]

ScoringEngine(mode_) == [mode |-> mode_, ema_score |-> None]

\* _get_scoring_engine that registers a new engine on every call
_get_scoring_engine_recreating(engines, keypoint_type, session_id, reset_) ==
    LET mode_ == IF keypoint_type = "hand" THEN "combined" ELSE "positional"
    IN  IF session_id # ""
        THEN [engines |-> [s \in DOMAIN engines \cup {session_id} |->
                              IF s = session_id THEN ScoringEngine(mode_) ELSE engines[s]],
              engine |-> ScoringEngine(mode_)]
        ELSE [engines |-> engines, engine |-> ScoringEngine(mode_)]

\* returns the registry as the call leaves it, and the engine
_get_scoring_engine(engines, keypoint_type, session_id, reset_) ==
    LET mode_ == IF keypoint_type = "hand" THEN "combined" ELSE "positional"
    IN  IF session_id # ""
        THEN LET present == IF session_id \in DOMAIN engines THEN engines
                            ELSE [s \in DOMAIN engines \cup {session_id} |->
                                     IF s = session_id THEN ScoringEngine(mode_) ELSE engines[s]]
                 engine == IF reset_ THEN [present[session_id] EXCEPT !.ema_score = None]
                           ELSE present[session_id]
             IN  [engines |-> [present EXCEPT ![session_id] = engine], engine |-> engine]
        ELSE [engines |-> engines, engine |-> ScoringEngine(mode_)]

BadRequest(exc) ==
    [status |-> 400, detail |-> exc, alignment |-> NoAlignmentPayload, score |-> NoResult, cues |-> <<>>]

\* lines 152-190: the response built from the ScoringResult score, and the
\* registry once score_frame has stored the smoothed value in the engine
Respond(request, payload, t, engines, score) ==
    [engines |-> IF request.session_id # ""
                 THEN [engines EXCEPT ![request.session_id].ema_score = Some(score.overall_score)]
                 ELSE engines,
     response |-> [status |-> 200, detail |-> "", alignment |-> t.alignment, score |-> score,
                   cues |-> generate_cues(t.det,
                                [i \in 1..Len(score.keys) |-> score.per_joint_errors[score.keys[i]]],
                                score.top_error_joints, payload.timing_offset, payload.max_cues)],
     stage |-> "scored"]

\* lines 150-151: the engine is looked up and score_frame is called on it
Score(request, payload, t, got) ==
    IF t.score_raises # ""
    THEN [engines |-> got.engines, response |-> BadRequest(t.score_raises), stage |-> "engine"]
    ELSE CHOOSE out \in
             {Respond(request, payload, t, got.engines, score) :
                  score \in {ScoringResult(got.engine.mode, got.engine.ema_score, t.fe)}} : TRUE

\* one execution of the handler on the registry engines, t being the entry of
\* PayloadTable for the request: the registry it leaves, the response, and how
\* far it came ("rejected" before _get_scoring_engine, "engine" when
\* score_frame raised, "scored")
Handle(request, payload, t, engines) ==
    IF t.raised # ""
    THEN [engines |-> engines, response |-> BadRequest(t.raised), stage |-> "rejected"]
    ELSE CHOOSE out \in
             {Score(request, payload, t, got) :
                  got \in {_get_scoring_engine(engines, payload.keypoint_type,
                                               request.session_id, request.reset_ema)}} : TRUE

analyze_feedback(request, engines) ==
    CHOOSE out \in
        {Handle(request, payload, t, engines) :
             payload \in {Payloads[request.payload]}, t \in {PayloadTable[request.payload]}} : TRUE

MaxRequests == 3

\* the requests a client may send
Requests ==
    [payload : {1, 2, 3, 5}, session_id : {"a"}, reset_ema : BOOLEAN]
    \cup [payload : {2, 4, 9}, session_id : {"b"}, reset_ema : BOOLEAN]
    \cup [payload : {2, 6, 7, 8}, session_id : {""}, reset_ema : {FALSE}]

FeedbackIdle ==
    /\ scoring_engines = <<>>
    /\ in_flight = {}
    /\ handled = <<>>
    /\ nrequests = 0

\* a request arrives while others may be waiting
Submit(request) ==
    /\ nrequests < MaxRequests
    /\ request \notin in_flight
    /\ nrequests' = nrequests + 1
    /\ in_flight' = in_flight \cup {request}
    /\ UNCHANGED <<scoring_engines, handled>>

\* the handler run in a thread pool: the write of the smoothing value is lost
\* when another request of the session is running
AnalyzeFeedbackThreaded(request) ==
    /\ request \in in_flight
    /\ \E out \in {analyze_feedback(request, scoring_engines)} :
           /\ scoring_engines' =
                  IF \E other \in in_flight \ {request} : other.session_id = request.session_id
                  THEN scoring_engines ELSE out.engines
           /\ handled' = Append(handled, [request |-> request, response |-> out.response,
                                          stage |-> out.stage])
    /\ in_flight' = in_flight \ {request}
    /\ UNCHANGED nrequests

\* the event loop runs the handler of one waiting request to its end
AnalyzeFeedback(request) ==
    /\ request \in in_flight
    /\ \E out \in {analyze_feedback(request, scoring_engines)} :
           /\ scoring_engines' = out.engines
           /\ handled' = Append(handled, [request |-> request, response |-> out.response,
                                          stage |-> out.stage])
    /\ in_flight' = in_flight \ {request}
    /\ UNCHANGED nrequests

-----------------------------------------------------------------------------
(* A frame scored by a new engine and the cues made from its result, as the  *)
(* router chains the two calls: the user and expert arrays go to score_frame *)
(* and to generate_cues, with per_joint_errors and top_error_joints of the   *)
(* result.                                                                   *)

\* the base hand with the tips of the thumb and of the middle finger bent off
\* their rays
Hooked(cx, cy) == WithJoints(Hand(cx, cy), 12, Pt(cx, cy + 25), 4, Pt(cx - 30, cy + 40))

PracticeHands ==
    << Hand(50, 50), Hand(20, 30), Widened(Hand(50, 50), 3, 2), Widened(Hand(50, 50), 1, 2),
       Rotated90(Hand(50, 50)), Hooked(50, 50), Rotated90(Hooked(50, 50)), WithZ(Hand(50, 50)) >>

\* the offsets of the user from the expert, in hundredths
PracticeShifts == << <<0, 0>>, <<15, 0>>, <<5, 0>>, <<0, 15>>, <<-15, 0>> >>

\* <<user, expert>>
PracticePairs ==
    [p \in 1..(Len(PracticeHands) * Len(PracticeShifts)) |->
        LET hand == PracticeHands[((p - 1) \div Len(PracticeShifts)) + 1]
            shift == PracticeShifts[((p - 1) % Len(PracticeShifts)) + 1]
        IN  <<Shifted(hand, shift[1], shift[2]), hand>>]

PracticeShift(p) == PracticeShifts[((p - 1) % Len(PracticeShifts)) + 1]

PracticeErrors ==
    [p \in 1..Len(PracticePairs) |-> FrameErrors(PracticePairs[p][1], PracticePairs[p][2], None)]

PracticeDetections ==
    [p \in 1..Len(PracticePairs) |-> Detections(PracticePairs[p][1], PracticePairs[p][2])]

PracticeInputs ==
    [op : {"score_frame, generate_cues"}, pair : 1..Len(PracticePairs),
     timing : CueTimings, max_cues : 0..MaxCues]

\* score = ScoringEngine().score_frame(user, expert);
\* cues = generate_cues(user, expert, score.per_joint_errors, score.top_error_joints, ...)
ScoreAndCue(in) ==
    /\ cue_in = NoCueCall
    /\ \E score \in {ScoringResult("combined", None, PracticeErrors[in.pair])} :
           /\ cue_in' = [op |-> in.op, pair |-> in.pair, timing |-> in.timing,
                         max_cues |-> in.max_cues, score |-> score]
           /\ cue_out' = generate_cues(PracticeDetections[in.pair],
                                       [i \in 1..Len(score.keys) |-> score.per_joint_errors[score.keys[i]]],
                                       score.top_error_joints, in.timing, in.max_cues)

\* error_to_score as a function: an engine with some k_scaling > 0, called on
\* some errors
MaxScoreCalls == 2

ScalingValues == {RInt(500), RInt(100), One, Rat(1, 2)}

ErrorValues ==
    {Rat(-1, 10), Zero, Rat(1, 1000), Rat(1, 10), Rat(199, 1000), Rat(1, 5), Rat(201, 1000),
     Rat(1, 2), One, RInt(99), RInt(100), RInt(200), RInt(201)}

FnIdle == fn_k = k_scaling /\ fn_calls = <<>>

ErrorToScore(error) ==
    /\ Len(fn_calls) < MaxScoreCalls
    /\ fn_calls' = Append(fn_calls, [error |-> error, score |-> error_to_score_of(fn_k, error)])
    /\ UNCHANGED fn_k

-----------------------------------------------------------------------------
(* PhraseNLP._deterministic_parse.  A string is the sequence of its          *)
(* characters; the loop is taken one iteration at a time.                    *)

MaxResults == 5

\* text.split(): the maximal runs of characters other than whitespace
RECURSIVE SplitWords(_, _, _, _)
SplitWords(text, i, current, done) ==
    IF i > Len(text) THEN (IF current = <<>> THEN done ELSE Append(done, current))
    ELSE IF text[i] = " "
    THEN SplitWords(text, i + 1, <<>>, IF current = <<>> THEN done ELSE Append(done, current))
    ELSE SplitWords(text, i + 1, Append(current, text[i]), done)

Split(text) == SplitWords(text, 1, <<>>, <<>>)

\* " ".join(tokens)
RECURSIVE Join(_)
Join(tokens) ==
    IF tokens = <<>> THEN <<>>
    ELSE IF Len(tokens) = 1 THEN tokens[1]
    ELSE tokens[1] \o <<" ">> \o Join(Tail(tokens))

\* Python s[i:j] for 0 <= i <= j
PySlice(s, i, j) == SubSeq(s, i + 1, IF j < Len(s) THEN j ELSE Len(s))

\* sorted([(word, word.split()) for word in vocab], key=lambda x: len(x[1]), reverse=True)
vocab_tokens(vocab) ==
    LET sorted == SortDesc([w \in 1..Len(vocab) |->
                               [k |-> RInt(Len(Split(vocab[w]))),
                                v |-> [word |-> vocab[w], parts |-> Split(vocab[w])]]])
    IN  [w \in 1..Len(sorted) |-> sorted[w].v]

\* the entries of the sorted vocabulary the for loop would match at token i
Matching(tokens, sorted, i) ==
    {w \in 1..Len(sorted) : PySlice(tokens, i, i + Len(sorted[w].parts)) = sorted[w].parts}

First(set) == CHOOSE w \in set : \A x \in set : w <= x

PhraseTokens == {<<"a">>, <<"b">>, <<"a", "b">>}

MaxTokens == 3

\* normalized phrases: tokens joined by single spaces, as _normalize leaves them
Phrases == {Join(tokens) : tokens \in UNION {[1..n -> PhraseTokens] : n \in 0..MaxTokens}}

\* vocabulary entries: "", " ", "a", "b", "ab", "a b", "b  a"
VocabWords ==
    {<<>>, <<" ">>, <<"a">>, <<"b">>, <<"a", "b">>, <<"a", " ", "b">>, <<"b", " ", " ", "a">>}

MaxVocab == 2

Vocabularies == UNION {[1..n -> VocabWords] : n \in 0..MaxVocab}

NoParseCall == [normalized |-> <<>>, vocab |-> <<>>]

ParseIdle ==
    /\ parse_in = NoParseCall
    /\ parse_i = 0
    /\ parse_results = <<>>
    /\ parse_pc = "idle"

\* lines 69-75: the call, up to the while loop
DeterministicParse(normalized, vocab) ==
    /\ parse_pc = "idle"
    /\ parse_in' = [normalized |-> normalized, vocab |-> vocab]
    /\ parse_i' = 0
    /\ parse_results' = <<>>
    /\ parse_pc' = "loop"

\* lines 76-85: one iteration of the while loop
LoopIteration ==
    /\ parse_pc = "loop"
    /\ Len(parse_results) < MaxResults
    /\ \E tokens \in {Split(parse_in.normalized)}, sorted \in {vocab_tokens(parse_in.vocab)} :
           /\ parse_i < Len(tokens)
           /\ \E matching \in {Matching(tokens, sorted, parse_i)} :
                  IF matching # {}
                  THEN /\ parse_results' = Append(parse_results, sorted[First(matching)].word)
                       /\ parse_i' = parse_i + Len(sorted[First(matching)].parts)
                  ELSE /\ parse_results' = Append(parse_results, tokens[parse_i + 1])
                       /\ parse_i' = parse_i + 1
    /\ UNCHANGED <<parse_in, parse_pc>>

\* line 86: the loop condition fails and results is returned
ParseReturn ==
    /\ parse_pc = "loop"
    /\ parse_i >= Len(Split(parse_in.normalized))
    /\ parse_pc' = "done"
    /\ UNCHANGED <<parse_in, parse_i, parse_results>>

vars == <<scoreVars, alignVars, cueVars, coachVars, normVars, feedbackVars, fnVars, parseVars>>

ScoreIdle == ScoreInit /\ mode = "combined"

Init == ScoreInit /\ AlignIdle /\ CueIdle /\ CoachIdle /\ NormIdle /\ FeedbackIdle /\ FnIdle /\ ParseIdle

Next ==
    \/ \E f \in 1..Len(Frames) : score_frame(f) /\ UNCHANGED <<alignVars, cueVars, coachVars, normVars, feedbackVars, fnVars, parseVars>>
    \/ reset /\ UNCHANGED <<alignVars, cueVars, coachVars, normVars, feedbackVars, fnVars, parseVars>>

Spec == Init /\ [][Next]_vars

InitAlign == ScoreIdle /\ AlignIdle /\ CueIdle /\ CoachIdle /\ NormIdle /\ FeedbackIdle /\ FnIdle /\ ParseIdle

NextAlign == \E in \in AlignInputs : Align(in) /\ UNCHANGED <<scoreVars, cueVars, coachVars, normVars, feedbackVars, fnVars, parseVars>>

SpecAlign == InitAlign /\ [][NextAlign]_vars

InitCues == ScoreIdle /\ AlignIdle /\ CueIdle /\ CoachIdle /\ NormIdle /\ FeedbackIdle /\ FnIdle /\ ParseIdle

NextCues ==
    \/ \E in \in GenerateInputs : GenerateCues(in) /\ UNCHANGED <<scoreVars, alignVars, coachVars, normVars, feedbackVars, fnVars, parseVars>>
    \/ \E cues \in CueLists : DeduplicateCues(cues) /\ UNCHANGED <<scoreVars, alignVars, coachVars, normVars, feedbackVars, fnVars, parseVars>>

SpecCues == InitCues /\ [][NextCues]_vars

InitCoach == ScoreIdle /\ AlignIdle /\ CueIdle /\ CoachIdle /\ NormIdle /\ FeedbackIdle /\ FnIdle /\ ParseIdle

NextCoach ==
    \/ \E request \in CoachRequests :
           StartCoaching(request) /\ UNCHANGED <<scoreVars, alignVars, cueVars, normVars, feedbackVars, fnVars, parseVars>>
    \/ \E request \in CoachRequests :
           StartCoachingPromptFails(request) /\ UNCHANGED <<scoreVars, alignVars, cueVars, normVars, feedbackVars, fnVars, parseVars>>
    \/ \E event \in CoachEvents :
           FinishCoaching(event) /\ UNCHANGED <<scoreVars, alignVars, cueVars, normVars, feedbackVars, fnVars, parseVars>>

\* asyncio.wait_for ends the await after timeout_seconds at the latest
SpecCoach == InitCoach /\ [][NextCoach]_vars /\ WF_vars(NextCoach)

InitNorm == ScoreIdle /\ AlignIdle /\ CueIdle /\ CoachIdle /\ NormIdle /\ FeedbackIdle /\ FnIdle /\ ParseIdle

NextNorm ==
    \/ \E in \in NormInputs :
           Normalize(in) /\ UNCHANGED <<scoreVars, alignVars, cueVars, coachVars, feedbackVars, fnVars, parseVars>>
    \/ \E y \in ApplyInputs(norm_in) :
           ApplyTransform(y) /\ UNCHANGED <<scoreVars, alignVars, cueVars, coachVars, feedbackVars, fnVars, parseVars>>
    \/ InvertTransform /\ UNCHANGED <<scoreVars, alignVars, cueVars, coachVars, feedbackVars, fnVars, parseVars>>

SpecNorm == InitNorm /\ [][NextNorm]_vars

InitFn ==
    /\ ScoreIdle /\ AlignIdle /\ CueIdle /\ CoachIdle /\ NormIdle /\ FeedbackIdle /\ ParseIdle
    /\ fn_k \in ScalingValues
    /\ fn_calls = <<>>

NextFn ==
    \E error \in ErrorValues :
        ErrorToScore(error)
        /\ UNCHANGED <<scoreVars, alignVars, cueVars, coachVars, normVars, feedbackVars, parseVars>>

SpecFn == InitFn /\ [][NextFn]_vars

InitPractice == ScoreIdle /\ AlignIdle /\ CueIdle /\ CoachIdle /\ NormIdle /\ FeedbackIdle /\ FnIdle /\ ParseIdle

NextPractice ==
    \E in \in PracticeInputs :
        ScoreAndCue(in)
        /\ UNCHANGED <<scoreVars, alignVars, coachVars, normVars, feedbackVars, fnVars, parseVars>>

SpecPractice == InitPractice /\ [][NextPractice]_vars

InitParse == ScoreIdle /\ AlignIdle /\ CueIdle /\ CoachIdle /\ NormIdle /\ FeedbackIdle /\ FnIdle /\ ParseIdle

NextParse ==
    \/ \E normalized \in Phrases, vocab \in Vocabularies :
           DeterministicParse(normalized, vocab)
           /\ UNCHANGED <<scoreVars, alignVars, cueVars, coachVars, normVars, feedbackVars, fnVars>>
    \/ LoopIteration /\ UNCHANGED <<scoreVars, alignVars, cueVars, coachVars, normVars, feedbackVars, fnVars>>
    \/ ParseReturn /\ UNCHANGED <<scoreVars, alignVars, cueVars, coachVars, normVars, feedbackVars, fnVars>>

SpecParse == InitParse /\ [][NextParse]_vars

InitFeedback == ScoreIdle /\ AlignIdle /\ CueIdle /\ CoachIdle /\ NormIdle /\ FeedbackIdle /\ FnIdle /\ ParseIdle

NextFeedback ==
    \/ \E request \in Requests :
           Submit(request) /\ UNCHANGED <<scoreVars, alignVars, cueVars, coachVars, normVars, fnVars, parseVars>>
    \/ \E request \in Requests :
           AnalyzeFeedback(request) /\ UNCHANGED <<scoreVars, alignVars, cueVars, coachVars, normVars, fnVars, parseVars>>

SpecFeedback == InitFeedback /\ [][NextFeedback]_vars

-----------------------------------------------------------------------------
(* Claims about the scoring engine (checked under Spec) *)

InRange(x) == RLe(Zero, x) /\ RLe(x, RInt(100))

\* C1: the overall_score of a successful score_frame is the EMA fold of the raw
\* scores: it is raw_score when no call has succeeded since construction or the
\* last reset, and alpha * raw_score + (1 - alpha) * (overall_score of the previous
\* successful call) otherwise; reset can always be called and never fails.
C1_EmaFold ==
    /\ [](ncalls < MaxCalls => ENABLED reset)
    /\ [][call'.op = "reset" => outcome' = "reset"]_vars
    /\ [][outcome' = "ok" =>
            result'.overall_score =
                IF fresh THEN result'.raw_score
                ELSE RAdd(RMul(Rat(3, 10), result'.raw_score),
                          RMul(Rat(7, 10), result.overall_score))]_vars

\* a call smoothed against an earlier one, and a call seeded after a reset that
\* followed a successful call
C1_Witness ==
    /\ outcome = "ok"
    /\ ncalls = MaxCalls
    /\ result.overall_score # result.raw_score

\* C2: score_frame on skeletons of different shape raises ValueError and leaves
\* the smoothing value (and everything else of the engine) as it was.
C2_ShapeMismatch ==
    [][(call'.op = "score_frame" /\ ncalls' # ncalls
          /\ Shape(Frames[call'.frame][1]) # Shape(Frames[call'.frame][2]))
        => (outcome' = "ValueError" /\ ema_score' = ema_score /\ result' = result
              /\ fresh' = fresh /\ mode' = mode)]_vars

\* a frame was rejected by an engine that holds a smoothing value
C2_Witness == outcome = "ValueError" /\ ema_score # None

\* C8: with the default configuration, in every mode, the four scores of every
\* returned ScoringResult lie in [0, 100].
C8_ScoresInRange ==
    outcome = "ok" =>
        /\ InRange(result.positional_score)
        /\ InRange(result.angular_score)
        /\ InRange(result.raw_score)
        /\ InRange(result.overall_score)

\* a result whose positional score was clamped at 0 while the angular score is 100
C8_Witness ==
    /\ outcome = "ok"
    /\ result.positional_score = Zero
    /\ result.angular_score = RInt(100)
    /\ ~fresh

\* joint a ranks before joint b: larger error, or equal error and smaller index
RanksBefore(errors, a, b) ==
    \/ RLt(errors[b], errors[a])
    \/ errors[a] = errors[b] /\ a < b

\* C12: top_error_joints of a successful score_frame lists min(3, number of
\* unmasked joints) distinct unmasked joints, those of largest per-joint error, by
\* descending error with ties (also at the cut-off) resolved by ascending index.
C12_TopErrorJoints ==
    outcome = "ok" =>
        LET top == result.top_error_joints
            errors == result.per_joint_errors
            mask == Frames[call.frame][3]
            unmasked == {idx \in 0..(Len(Frames[call.frame][1]) - 1) :
                            mask = None \/ mask[1][idx + 1]}
            listed == {top[i] : i \in 1..Len(top)}
        IN  /\ Len(top) = IF Cardinality(unmasked) < 3 THEN Cardinality(unmasked) ELSE 3
            /\ listed \subseteq unmasked
            /\ Cardinality(listed) = Len(top)
            /\ \A i, j \in 1..Len(top) : i < j => RanksBefore(errors, top[i], top[j])
            /\ \A a \in listed : \A b \in unmasked \ listed : RanksBefore(errors, a, b)

\* a masked frame whose third listed joint has the same error as an unmasked joint
\* that is left out
C12_Witness ==
    /\ outcome = "ok"
    /\ Frames[call.frame][3] # None
    /\ Len(result.top_error_joints) = 3
    /\ RLt(result.per_joint_errors[result.top_error_joints[2]],
           result.per_joint_errors[result.top_error_joints[1]])
    /\ \E i \in 1..Len(result.keys) :
           /\ \A j \in 1..3 : result.top_error_joints[j] # result.keys[i]
           /\ result.per_joint_errors[result.keys[i]] =
                  result.per_joint_errors[result.top_error_joints[3]]

\* C13: error_to_score(e) is 100 - k * e cut to [0, 100] for every k > 0: it is
\* 100 at e = 0, 0 from e = 100 / k on, never outside [0, 100], and of two errors
\* the larger one never gets the higher score.
C13_ErrorToScore ==
    \A c \in 1..Len(fn_calls) :
        LET e == fn_calls[c].error
            linear == RSub(RInt(100), RMul(fn_k, e))
        IN  /\ fn_calls[c].score =
                   IF RLt(linear, Zero) THEN Zero
                   ELSE IF RLt(RInt(100), linear) THEN RInt(100) ELSE linear
            /\ e = Zero => fn_calls[c].score = RInt(100)
            /\ RLe(RDiv(RInt(100), fn_k), e) => fn_calls[c].score = Zero
            /\ RLe(Zero, fn_calls[c].score) /\ RLe(fn_calls[c].score, RInt(100))
            /\ \A d \in 1..Len(fn_calls) :
                   RLe(e, fn_calls[d].error) => RLe(fn_calls[d].score, fn_calls[c].score)

\* an engine with another k_scaling than the default, called at an error below
\* 100 / k and at 100 / k itself
C13_Witness ==
    /\ fn_k # k_scaling
    /\ Len(fn_calls) = 2
    /\ RLt(Zero, fn_calls[1].error)
    /\ RLt(Zero, fn_calls[1].score) /\ RLt(fn_calls[1].score, RInt(100))
    /\ fn_calls[2].error = RDiv(RInt(100), fn_k)
    /\ fn_calls[2].score = Zero

\* the joints of frame f that its confidence_mask lets through
UnmaskedJoints(f) ==
    {idx \in 0..(Len(Frames[f][1]) - 1) : Frames[f][3] = None \/ Frames[f][3][1][idx + 1]}

\* C14: score_frame on a frame of two full skeletons of one shape returns also
\* when the mask lets no joint through; per_joint_errors then is empty, as is
\* top_error_joints, and positional_score is 100.  In every case the keys of
\* per_joint_errors are exactly the joints the mask lets through (all joints
\* when there is no mask).
C14_MaskedJoints ==
    /\ [](outcome = "ok" =>
            /\ DOMAIN result.per_joint_errors = UnmaskedJoints(call.frame)
            /\ UnmaskedJoints(call.frame) = {} =>
                   /\ result.positional_score = RInt(100)
                   /\ result.top_error_joints = <<>>)
    /\ [][call'.op = "score_frame" /\ Scorable(call'.frame) => outcome' = "ok"]_vars

\* a frame whose mask is all false has been scored
C14_Witness ==
    /\ outcome = "ok"
    /\ Frames[call.frame][3] # None
    /\ UnmaskedJoints(call.frame) = {}
    /\ result.per_joint_errors = <<>>
    /\ ~(Frames[call.frame][1] = Frames[call.frame][2])

\* C15: of the fields of the ScoringResult only overall_score depends on the
\* calls made before: every other field is what a newly constructed engine of the
\* same mode returns for the same frame.
C15_HistoryIndependent ==
    outcome = "ok" =>
        \E first \in {ScoringResult(mode, None, FrameTable[call.frame])} :
            /\ result.raw_score = first.raw_score
            /\ result.positional_score = first.positional_score
            /\ result.angular_score = first.angular_score
            /\ result.timing_penalty = first.timing_penalty
            /\ result.per_joint_errors = first.per_joint_errors
            /\ result.top_error_joints = first.top_error_joints

\* a frame scored after another one: its overall_score is not the one a new
\* engine returns, and its raw score is below 100
C15_Witness ==
    /\ outcome = "ok"
    /\ ~fresh
    /\ RLt(result.raw_score, RInt(100))
    /\ result.overall_score # ScoringResult(mode, None, FrameTable[call.frame]).overall_score

-----------------------------------------------------------------------------
(* Claims about the alignment engine (checked under SpecAlign) *)

\* number of anchors whose confidence (fourth column) reaches the threshold
ValidAnchors(in) == Cardinality({a \in DOMAIN in.conf : RLe(in.threshold, in.conf[a])})

\* C3: when fewer than 2 anchors of a user skeleton with a confidence column reach
\* the threshold, align_hands / align_pose return the degraded result: quality 0,
\* identity matrix, scale 1, translation (0, 0), rotation 0 and the expert's own
\* x, y coordinates.
C3_DegradedAlignment ==
    (align_in.kind # "none" /\ align_in.cols = 4 /\ ValidAnchors(align_in) < 2) =>
        /\ align_out.alignment_quality = Zero
        /\ align_out.transform_matrix = Identity3
        /\ align_out.scale_factor = One
        /\ align_out.translation = <<Zero, Zero>>
        /\ align_out.rotation_angle = Turn0
        /\ align_out.aligned_expert =
              [i \in 1..Len(ExpertOf(align_in)) |-> SubSeq(ExpertOf(align_in)[i], 1, 2)]

\* exactly one anchor passes, for a user skeleton that is a scaled, rotated and
\* moved copy of the expert
C3_Witness ==
    /\ align_in.kind = "pose"
    /\ align_in.cols = 4
    /\ align_in.geom = 2
    /\ ValidAnchors(align_in) = 1
    /\ align_out.alignment_quality = Zero

\* C16: for a user skeleton with a confidence column of which at least 2 anchors
\* reach the threshold, alignment_quality is the fraction of anchors that reach
\* it; over all calls alignment_quality is 0 or at least 2 / (number of anchors),
\* and at most 1.
C16_AlignmentQuality ==
    align_in.kind # "none" =>
        /\ (align_in.cols = 4 /\ ValidAnchors(align_in) >= 2) =>
               align_out.alignment_quality =
                   Rat(ValidAnchors(align_in), Len(AnchorsOf(align_in.kind)))
        /\ \/ align_out.alignment_quality = Zero
           \/ /\ RLe(Rat(2, Len(AnchorsOf(align_in.kind))), align_out.alignment_quality)
              /\ RLe(align_out.alignment_quality, One)

\* a hand call in which two of the three anchors reach the threshold
C16_Witness ==
    /\ align_in.kind = "hand"
    /\ align_in.cols = 4
    /\ ValidAnchors(align_in) = 2
    /\ align_out.alignment_quality = Rat(2, 3)

-----------------------------------------------------------------------------
(* Claims about the cue mapper, checked under SpecCues *)

NoTwoSameText(cues) ==
    \A i, j \in 1..Len(cues) : i # j => cues[i].text # cues[j].text

\* the positions of cues that hold the first cue with its text
FirstPositions(cues) ==
    {i \in 1..Len(cues) : \A j \in 1..(i - 1) : cues[j].text # cues[i].text}

\* the position in cues of the first cue whose text is c's (0 if there is none)
PositionOf(cues, c) ==
    IF \E i \in 1..Len(cues) : cues[i].text = c.text
    THEN CHOOSE i \in FirstPositions(cues) : cues[i].text = c.text
    ELSE 0

\* C4 as stated: for every call of generate_cues, with any integer max_cues,
\* the number of cues returned is at most max_cues.
C4_AtMostMaxCues ==
    cue_in.op = "generate_cues" => Len(cue_out) <= cue_in.max_cues

\* C4, amended: for every call of generate_cues with max_cues >= 0 the number
\* of cues returned is at most max_cues; with max_cues < 0 the call returns
\* the ranked findings without their last -max_cues elements.
C4_AtMostMaxCuesNonNegative ==
    cue_in.op = "generate_cues" =>
        LET n == Cardinality(FirstPositions(FindingsOf(cue_in)))
        IN  /\ cue_in.max_cues >= 0 => Len(cue_out) <= cue_in.max_cues
            /\ cue_in.max_cues < 0 =>
                   Len(cue_out) = (IF n + cue_in.max_cues > 0 THEN n + cue_in.max_cues ELSE 0)

C4_Witness ==
    /\ cue_in.op = "generate_cues"
    /\ cue_in.max_cues > 0
    /\ Len(FindingsOf(cue_in)) > cue_in.max_cues
    /\ Len(cue_out) = cue_in.max_cues

\* C5: no list returned by generate_cues holds two cues with the same text,
\* and every cue returned is the first finding, in detection order, with its
\* text; deduplicate_cues, which generate_cues applies to its findings, keeps
\* of any list exactly the first cue of each text, in the order of the list.
C5_DistinctTexts ==
    /\ cue_in.op = "generate_cues" =>
           /\ NoTwoSameText(cue_out)
           /\ \A k \in 1..Len(cue_out) :
                  /\ PositionOf(FindingsOf(cue_in), cue_out[k]) # 0
                  /\ FindingsOf(cue_in)[PositionOf(FindingsOf(cue_in), cue_out[k])] = cue_out[k]
    /\ cue_in.op = "deduplicate_cues" =>
           /\ NoTwoSameText(cue_out)
           /\ Len(cue_out) = Cardinality(FirstPositions(cue_in.cues))
           /\ \A k \in 1..Len(cue_out) :
                  /\ PositionOf(cue_in.cues, cue_out[k]) # 0
                  /\ cue_in.cues[PositionOf(cue_in.cues, cue_out[k])] = cue_out[k]
           /\ \A k, l \in 1..Len(cue_out) :
                  k < l => PositionOf(cue_in.cues, cue_out[k]) < PositionOf(cue_in.cues, cue_out[l])

C5_Witness ==
    /\ cue_in.op = "deduplicate_cues"
    /\ Len(cue_in.cues) = 3
    /\ cue_in.cues[1].text = cue_in.cues[3].text
    /\ cue_in.cues[1] # cue_in.cues[3]
    /\ cue_in.cues[2].text # cue_in.cues[1].text
    /\ cue_out = <<cue_in.cues[1], cue_in.cues[2]>>

\* C6: the list returned by generate_cues is the first max_cues elements
\* (a Python slice) of the deduplicated findings sorted by descending
\* priority: priorities never increase along it, cues of equal priority keep
\* their detection order, no omitted finding has a strictly higher priority
\* than a returned cue, and an omitted finding of the same priority as a
\* returned cue was detected after it.
C6_RankedPrefix ==
    cue_in.op = "generate_cues" =>
        LET found == FindingsOf(cue_in)
            first == FirstPositions(found)
            n == Cardinality(first)
            returned == {PositionOf(found, cue_out[k]) : k \in 1..Len(cue_out)}
        IN  /\ returned \subseteq first
            /\ \A k \in 1..Len(cue_out) : found[PositionOf(found, cue_out[k])] = cue_out[k]
            /\ Len(cue_out) = Cardinality(returned)
            /\ Len(cue_out) =
                   (IF cue_in.max_cues >= 0
                    THEN (IF cue_in.max_cues < n THEN cue_in.max_cues ELSE n)
                    ELSE (IF n + cue_in.max_cues > 0 THEN n + cue_in.max_cues ELSE 0))
            /\ \A k, l \in 1..Len(cue_out) :
                   k < l =>
                       /\ ~RLt(cue_out[k].priority, cue_out[l].priority)
                       /\ cue_out[k].priority = cue_out[l].priority =>
                              PositionOf(found, cue_out[k]) < PositionOf(found, cue_out[l])
            /\ \A i \in first \ returned : \A k \in 1..Len(cue_out) :
                   /\ ~RLt(cue_out[k].priority, found[i].priority)
                   /\ cue_out[k].priority = found[i].priority =>
                          PositionOf(found, cue_out[k]) < i

C6_Witness ==
    /\ cue_in.op = "generate_cues"
    /\ cue_in.max_cues = 2
    /\ Len(FindingsOf(cue_in)) > 3
    /\ Len(cue_out) = 2
    /\ cue_out[1].text = "Thumb curl"
    /\ cue_out[2].text = "Curl your middle finger"
    /\ cue_out[1].priority = cue_out[2].priority
    /\ \E i \in 1..Len(FindingsOf(cue_in)) :
           /\ FindingsOf(cue_in)[i].text = "Extend your ring finger"
           /\ FindingsOf(cue_in)[i].priority = cue_out[2].priority

-----------------------------------------------------------------------------
(* Claims about the coach, checked under SpecCoach *)

\* the response built from the deterministic cues alone
DeterministicResponse(request) ==
    [primary_cue |-> IF Len(request.deterministic_cues) >= 1
                     THEN <<request.deterministic_cues[1]>> ELSE <<"Keep practicing!">>,
     secondary_cue |-> IF Len(request.deterministic_cues) >= 2
                       THEN <<<<request.deterministic_cues[2]>>>> ELSE <<>>,
     encouragement |-> <<>>,
     should_speak |-> TRUE]

\* C7: generate_coaching always completes, and with a CoachingResponse: no
\* exception reaches the caller; when the collaborator times out or raises
\* (also while the prompt is built or the reply is parsed) the response is the
\* fallback made of the first deterministic cue (or "Keep practicing!") and
\* the second one if there is one; when it replies, the response is parsed
\* from the reply: its primary cue is the first non-blank sentence of the
\* reply, or the fallback's primary cue when the reply has none.
C7_AlwaysResponds ==
    /\ [](coach_pc = "done" =>
            /\ coach_result.raised = "none"
            /\ coach_result.response.should_speak
            /\ coach_event.kind \in {"timeout", "raises", "prompt_raises", "not_text"} =>
                   coach_result.response = DeterministicResponse(coach_request)
            /\ coach_event.kind = "reply" =>
                   LET sentences == Sentences(coach_event.text)
                   IN  /\ sentences # <<>> =>
                              coach_result.response.primary_cue = <<sentences[1], ".">>
                       /\ sentences = <<>> =>
                              coach_result.response.primary_cue =
                                  DeterministicResponse(coach_request).primary_cue)
    /\ (coach_pc = "awaiting" ~> coach_pc = "done")

C7_Witness ==
    /\ coach_pc = "done"
    /\ coach_event.kind = "raises"
    /\ Len(coach_request.deterministic_cues) = 2
    /\ coach_request.deterministic_cues[1] # coach_request.deterministic_cues[2]
    /\ coach_request.current_score = 95
    /\ coach_result.raised = "none"
    /\ coach_result.response.primary_cue = <<coach_request.deterministic_cues[1]>>
    /\ coach_result.response.secondary_cue = <<<<coach_request.deterministic_cues[2]>>>>

-----------------------------------------------------------------------------
(* Claims about the normalizer, checked under SpecNorm *)

\* 1e-4, the tolerance of the round-trip law
Tolerance == Rat(1, 10000)

\* arrays a and b agree within Tolerance in every coordinate
Close(a, b) ==
    /\ Len(a) = Len(b)
    /\ \A i \in 1..Len(a) : \A c \in 1..2 : RLe(RAbs(RSub(a[i][c], b[i][c])), Tolerance)

\* the reference length of the skeleton is above 1e-6
NonDegenerate(in) ==
    RLt(Tiny, IF in.kind = "hand" THEN compute_reference_length_hand(SkeletonOf(in))
              ELSE compute_reference_length_pose(SkeletonOf(in)))

\* C9: for a non-degenerate skeleton X and any target_scale > 0,
\* invert_transform(normalize(X)) is X within the tolerance.
C9_RoundTrip ==
    (norm_trace = <<"normalize", "invert">> /\ NonDegenerate(norm_in)) =>
        Close(norm_cur, XY(SkeletonOf(norm_in)))

\* C10: with the params p of normalize(X), apply_transform(X, p) is the
\* canonical skeleton normalize(X) returned, and invert_transform undoes
\* apply_transform on every skeleton Y.
C10_ApplyInvertInverses ==
    /\ (norm_trace = <<"normalize", "apply">> /\ norm_y = SkeletonOf(norm_in)) =>
           Close(norm_cur, norm_canon)
    /\ norm_trace = <<"normalize", "apply", "invert">> => Close(norm_cur, XY(norm_y))

\* C18: normalize_hand / normalize_pose of a skeleton whose reference vector has
\* length zero returns params with scale 1.0 and rotation 0.
C18_DegenerateIdentity ==
    (norm_trace # <<>> /\ ~NonDegenerate(norm_in)) =>
        /\ norm_params.scale = One
        /\ norm_params.rotation = Turn0

-----------------------------------------------------------------------------
(* Claims about the feedback endpoint (checked under SpecFeedback) *)

\* the handled requests of session s that reached _get_scoring_engine
SessionLog(s) == SelectSeq(handled, LAMBDA h : h.request.session_id = s /\ h.stage # "rejected")

\* the smoothing value after the first k entries of log: a request with reset_ema
\* starts the fold anew, a request whose score_frame raised adds nothing
RECURSIVE EmaFold(_, _)
EmaFold(log, k) ==
    IF k = 0 THEN None
    ELSE LET start == IF log[k].request.reset_ema THEN None ELSE EmaFold(log, k - 1)
             raw == log[k].response.score.raw_score
         IN  IF log[k].stage # "scored" THEN start
             ELSE IF start = None THEN Some(raw)
             ELSE Some(RAdd(RMul(Rat(3, 10), raw), RMul(Rat(7, 10), start[1])))

\* C11: whatever requests of one session are in flight together, the handler runs
\* for one of them at a time: the overall_score of every response is the EMA fold
\* of the raw scores of the session's requests handled up to it, in the order they
\* were handled, and the engine holds the fold of all of them (no update is lost).
C11_NoLostUpdate ==
    \A s \in SessionIds :
        \E log \in {SessionLog(s)} :
            /\ (s \in DOMAIN scoring_engines) <=> (log # <<>>)
            /\ s \in DOMAIN scoring_engines =>
                   scoring_engines[s].ema_score = EmaFold(log, Len(log))
            /\ \A k \in 1..Len(log) :
                   log[k].stage = "scored" =>
                       Some(log[k].response.score.overall_score) = EmaFold(log, k)

\* two requests of session "a" were scored one after the other, the second one
\* smoothed against the first, while a third one of the session was waiting
C11_Witness ==
    \E log \in {SessionLog("a")} :
        /\ Len(log) >= 2
        /\ log[Len(log)].stage = "scored" /\ log[Len(log) - 1].stage = "scored"
        /\ ~log[Len(log)].request.reset_ema
        /\ log[Len(log)].response.score.overall_score # log[Len(log)].response.score.raw_score
        /\ \E other \in in_flight : other.session_id = "a"

\* the joints of the user skeleton of payload whose last column reaches the
\* confidence threshold
ConfidentJoints(payload) ==
    {idx \in 0..(Len(payload.user_keypoints) - 1) :
        RLe(payload.confidence_threshold, payload.user_keypoints[idx + 1][4])}

\* C17: for a user skeleton of [x, y] or [x, y, z] joints every anchor is valid
\* (alignment quality 1) and no joint is masked from scoring; for [x, y, z,
\* confidence] joints the last column is compared with the threshold.
C17_ConfidenceByColumns ==
    \A h \in 1..Len(handled) :
        handled[h].response.status = 200 =>
            LET payload == Payloads[handled[h].request.payload]
                joints == 0..(Len(payload.user_keypoints) - 1)
                anchors == AnchorsOf(payload.keypoint_type)
                scored == DOMAIN handled[h].response.score.per_joint_errors
                quality == handled[h].response.alignment.quality
            IN  IF Shape(payload.user_keypoints)[2] < 4
                THEN quality = One /\ scored = joints
                ELSE /\ scored = ConfidentJoints(payload)
                     /\ quality =
                            LET valid == {a \in 1..Len(anchors) : anchors[a] \in ConfidentJoints(payload)}
                            IN  IF Cardinality(valid) < 2 THEN Zero
                                ELSE Rat(Cardinality(valid), Len(anchors))

-----------------------------------------------------------------------------
(* Claims about a scored frame and the cues made from it (checked under      *)
(* SpecPractice)                                                             *)

Practised == cue_in # NoCueCall /\ cue_in.op = "score_frame, generate_cues"

GeometryCategories == {"position", "rotation", "spread", "curl"}

\* C19: when one 21-joint hand is both user and expert, score_frame gives
\* positional_score = 100 and angular_score = 100, and generate_cues fed with
\* that result, timing_offset 0 and max_cues >= 1, returns exactly one cue, whose
\* text is "Perfect! Keep it up!"; no cue is of category position, rotation,
\* spread or curl.
C19_IdenticalHands ==
    (/\ Practised
     /\ PracticeShift(cue_in.pair) = <<0, 0>>
     /\ cue_in.timing = Zero
     /\ cue_in.max_cues >= 1)
    => /\ cue_in.score.positional_score = RInt(100)
       /\ cue_in.score.angular_score = RInt(100)
       /\ Len(cue_out) = 1
       /\ cue_out[1].text = "Perfect! Keep it up!"
       /\ \A i \in 1..Len(cue_out) : cue_out[i].category \notin GeometryCategories

C19_Witness ==
    /\ Practised
    /\ PracticeShift(cue_in.pair) = <<0, 0>>
    /\ PracticePairs[cue_in.pair][2] = Rotated90(Hooked(50, 50))
    /\ cue_in.timing = Zero
    /\ cue_in.max_cues = 1
    /\ Len(cue_out) = 1

\* C20: when the user is the 21-joint expert hand shifted by +0.15 in x, y
\* unchanged, score_frame gives positional_score < 100, and generate_cues with
\* max_cues >= 1 returns exactly one cue of category position; that cue has
\* priority 0.9 and is the first of the list.
C20_ShiftedHand ==
    (/\ Practised
     /\ PracticeShift(cue_in.pair) = <<15, 0>>
     /\ cue_in.max_cues >= 1)
    => /\ RLt(cue_in.score.positional_score, RInt(100))
       /\ Cardinality({i \in 1..Len(cue_out) : cue_out[i].category = "position"}) = 1
       /\ cue_out[1].category = "position"
       /\ cue_out[1].priority = Rat(9, 10)

C20_Witness ==
    /\ Practised
    /\ PracticeShift(cue_in.pair) = <<15, 0>>
    /\ cue_in.timing = Rat(3, 10)
    /\ cue_in.max_cues = MaxCues
    /\ Len(cue_out) = 2
    /\ cue_out[1].category = "position"

-----------------------------------------------------------------------------
(* Claims about the canonical skeleton of normalize_hand (checked under      *)
(* SpecNorm)                                                                 *)

NormalizedHand == norm_in.kind = "hand" /\ norm_trace # <<>>

\* the wrist -> middle fingertip distance of the input is above 1e-6
NonDegenerateHand == RLt(Tiny, compute_reference_length_hand(SkeletonOf(norm_in)))

\* C21: the canonical skeleton of normalize_hand has its wrist at (0, 0), for
\* every hand and target_scale; for a non-degenerate hand its wrist -> joint 9
\* vector lies on the +x axis and its wrist -> joint 12 distance equals
\* target_scale.
C21_CanonicalHand ==
    NormalizedHand =>
        /\ Row(norm_canon, HAND_WRIST) = <<Zero, Zero>>
        /\ NonDegenerateHand =>
               /\ Row(norm_canon, HAND_MIDDLE_MCP)[2] = Zero
               /\ Row(norm_canon, HAND_MIDDLE_MCP)[1].n >= 0
               /\ Norm(Row(norm_canon, HAND_MIDDLE_TIP)) = norm_in.target_scale

\* the same for target scales of 1 and more
C21_CanonicalHandUnitScale ==
    RLe(One, norm_in.target_scale) => C21_CanonicalHand

-----------------------------------------------------------------------------
(* Claims about the detectors of generate_cues (checked under SpecCues)      *)

WithCategory(cues, cat) == {i \in 1..Len(cues) : cues[i].category = cat}

CurlCuesOf(cues, chain) ==
    {i \in 1..Len(cues) : cues[i].category = "curl" /\ cues[i].affected_joints = chain}

CueCategories == {"position", "rotation", "spread", "curl", "timing", "global"}

\* C22 (as stated): each detector of generate_cues contributes at most one
\* finding to the candidate list, and a returned list never holds two cues of
\* the same category.
C22_OneFindingPerDetector ==
    cue_in.op = "generate_cues" =>
        \A cat \in CueCategories :
            /\ Cardinality(WithCategory(FindingsOf(cue_in), cat)) <= 1
            /\ Cardinality(WithCategory(cue_out, cat)) <= 1

\* C22 (amended): the position, rotation, spread, timing and positive
\* reinforcement detectors contribute at most one finding each, and the
\* curl/extend detector at most one finding for each finger whose chain holds a
\* joint of top_error_joints; a returned list never holds two cues of one
\* category other than curl, nor two curl cues for one finger.
C22_OneFindingPerDetectorOrFinger ==
    cue_in.op = "generate_cues" =>
        /\ \A cat \in CueCategories \ {"curl"} :
               /\ Cardinality(WithCategory(FindingsOf(cue_in), cat)) <= 1
               /\ Cardinality(WithCategory(cue_out, cat)) <= 1
        /\ \A f \in 1..Len(FINGER_CHAINS) :
               /\ Cardinality(CurlCuesOf(FindingsOf(cue_in), FINGER_CHAINS[f])) <=
                      (IF HasTopJoint(FINGER_CHAINS[f], CueTopJoints[cue_in.top]) THEN 1 ELSE 0)
               /\ Cardinality(CurlCuesOf(cue_out, FINGER_CHAINS[f])) <= 1
        /\ \A i \in WithCategory(FindingsOf(cue_in), "curl") :
               \E f \in 1..Len(FINGER_CHAINS) : FindingsOf(cue_in)[i].affected_joints = FINGER_CHAINS[f]

C22_Witness ==
    /\ cue_in.op = "generate_cues"
    /\ Cardinality(WithCategory(cue_out, "curl")) = 2
    /\ Cardinality(WithCategory(FindingsOf(cue_in), "curl")) = 2
    /\ \E i, j \in 1..Len(cue_out) :
           /\ cue_out[i].affected_joints = FINGER_CHAINS[1]
           /\ cue_out[j].affected_joints = FINGER_CHAINS[3]

\* the angle at the second joint of finger f formed by its first three joints,
\* as _curl_cues takes it
ProximalAngle(kp, f) ==
    compute_angle_at_joint(Row(kp, FINGER_CHAINS[f][2]), Row(kp, FINGER_CHAINS[f][3]),
                           Row(kp, FINGER_CHAINS[f][4]))

\* user angle - expert angle, in degrees, per geometry and finger
AngleGapTable ==
    [g \in 1..Len(CueGeometry) |->
        [f \in 1..Len(FINGER_CHAINS) |->
            RSub(ProximalAngle(CueGeometry[g][1], f), ProximalAngle(CueGeometry[g][2], f))]]

CurlFindingOf(f, gap) ==
    template_to_cue(<<finger_names[f], IF gap.n < 0 THEN "curl" ELSE "extend">>,
                    Rat(65, 100), FINGER_CHAINS[f], "None")

\* C23: generate_cues finds a curl/extend cue for a finger exactly when the
\* finger's chain holds a joint of top_error_joints and the user's and the
\* expert's proximal angles differ by at least 15 degrees; the cue is the curl
\* one when user angle - expert angle is negative and the extend one otherwise.
C23_CurlThreshold ==
    cue_in.op = "generate_cues" =>
        \A f \in 1..Len(FINGER_CHAINS) :
            LET gap == AngleGapTable[cue_in.geom][f]
                due == /\ HasTopJoint(FINGER_CHAINS[f], CueTopJoints[cue_in.top])
                       /\ RLe(ANGLE_THRESHOLD, RAbs(gap))
            IN  /\ due <=> CurlCuesOf(FindingsOf(cue_in), FINGER_CHAINS[f]) # {}
                /\ \A i \in CurlCuesOf(FindingsOf(cue_in), FINGER_CHAINS[f]) :
                       FindingsOf(cue_in)[i] = CurlFindingOf(f, gap)

\* the same on the calls where no proximal angle differs by less than 15 degrees
C23_CurlThresholdWideGaps ==
    (cue_in.op = "generate_cues" =>
         \A f \in 1..Len(FINGER_CHAINS) :
             \/ AngleGapTable[cue_in.geom][f] = Zero
             \/ RLe(ANGLE_THRESHOLD, RAbs(AngleGapTable[cue_in.geom][f])))
    => C23_CurlThreshold

TemplateTexts == {CUE_TEMPLATES[key] : key \in DOMAIN CUE_TEMPLATES}

\* the category of the detector that appends with this priority in generate_cues
DetectorCategory(priority) ==
    IF priority = Rat(9, 10) THEN "position"
    ELSE IF priority = Rat(8, 10) THEN "rotation"
    ELSE IF priority = Rat(7, 10) THEN "spread"
    ELSE IF priority = Rat(65, 100) THEN "curl"
    ELSE IF priority = Rat(6, 10) THEN "timing"
    ELSE "global"

\* C24: every cue returned by generate_cues has a text of the template table
\* CUE_TEMPLATES, and the category of the detector that produced it.
C24_TemplateTexts ==
    cue_in.op = "generate_cues" =>
        \A i \in 1..Len(cue_out) :
            /\ cue_out[i].text \in TemplateTexts
            /\ cue_out[i].category = DetectorCategory(cue_out[i].priority)

\* the part of C24 about categories, and the texts that are not of the table
C24_CategoriesAndStrayTexts ==
    cue_in.op = "generate_cues" =>
        \A i \in 1..Len(cue_out) :
            /\ cue_out[i].category = DetectorCategory(cue_out[i].priority)
            /\ cue_out[i].text \in
                   TemplateTexts \cup {"Thumb curl", "Thumb extend", "Great job! Almost perfect!"}

\* error_to_score of the mean of the per_joint_errors values of the call in, the
\* mean of no value being taken as 0
ApproxScore(in) ==
    error_to_score(IF CueErrors[in.errs] = <<>> THEN Zero ELSE RMean(CueErrors[in.errs]))

\* C25: generate_cues finds a positive cue exactly when s, the error_to_score of
\* the mean of the per_joint_errors values, is at least 75: "Perfect! Keep it
\* up!" with priority 0.5 when s >= 95, else "Great job! Almost perfect!" with
\* 0.3 when s >= 85, else "Almost there! Small adjustment needed" with 0.2; the
\* priority is below that of every other finding; with no per_joint_errors value
\* the mean is taken as 0 and the finding is "Perfect! Keep it up!".
C25_PositiveReinforcement ==
    cue_in.op = "generate_cues" =>
        LET found == FindingsOf(cue_in)
            positives == WithCategory(found, "global")
            s == ApproxScore(cue_in)
        IN  /\ positives # {} <=> RLe(RInt(75), s)
            /\ Cardinality(positives) <= 1
            /\ \A i \in positives :
                   /\ i = Len(found)
                   /\ found[i].text = (IF RLe(RInt(95), s) THEN "Perfect! Keep it up!"
                                       ELSE IF RLe(RInt(85), s) THEN "Great job! Almost perfect!"
                                       ELSE "Almost there! Small adjustment needed")
                   /\ found[i].priority = (IF RLe(RInt(95), s) THEN Rat(5, 10)
                                           ELSE IF RLe(RInt(85), s) THEN Rat(3, 10)
                                           ELSE Rat(2, 10))
                   /\ \A j \in 1..Len(found) : j # i => RLt(found[i].priority, found[j].priority)
            /\ CueErrors[cue_in.errs] = <<>> =>
                   \E i \in positives : found[i].text = "Perfect! Keep it up!"

C25_Witness ==
    /\ cue_in.op = "generate_cues"
    /\ ApproxScore(cue_in) = RInt(75)
    /\ Len(cue_out) = 3
    /\ cue_out[3].text = "Almost there! Small adjustment needed"
    /\ cue_out[2].category = "timing"

-----------------------------------------------------------------------------
(* Claims about the session registry of the feedback router (checked under   *)
(* SpecFeedback)                                                             *)

\* the step is one run of the handler
Handled == Len(handled') = Len(handled) + 1

LastHandled == handled'[Len(handled')]

\* C26: a session_id has one engine in the registry, created by the session's
\* first request that reaches _get_scoring_engine, reused by every later request
\* of the session and never replaced; a request of one session changes no engine
\* of another session; a request without session_id is scored by a new engine
\* (overall_score = raw_score) and leaves the registry as it was; a request with
\* reset_ema gets overall_score = raw_score.
C26_SessionRegistry ==
    [][Handled =>
          LET h == LastHandled
              s == h.request.session_id
              score == h.response.score
          IN  /\ DOMAIN scoring_engines \subseteq DOMAIN scoring_engines'
              /\ DOMAIN scoring_engines' \subseteq DOMAIN scoring_engines \cup ({s} \ {""})
              /\ \A b \in DOMAIN scoring_engines : b # s => scoring_engines'[b] = scoring_engines[b]
              /\ s \in DOMAIN scoring_engines =>
                     /\ scoring_engines'[s].mode = scoring_engines[s].mode
                     /\ (h.stage = "scored" /\ ~h.request.reset_ema
                             /\ scoring_engines[s].ema_score # None) =>
                            score.overall_score =
                                RAdd(RMul(ema_alpha, score.raw_score),
                                     RMul(RSub(One, ema_alpha), scoring_engines[s].ema_score[1]))
              /\ s = "" =>
                     /\ scoring_engines' = scoring_engines
                     /\ h.stage = "scored" => score.overall_score = score.raw_score
              /\ (h.request.reset_ema /\ h.stage = "scored") =>
                     score.overall_score = score.raw_score]_vars

\* a request without session_id was scored at its raw score while session "a"
\* held a smoothed value, after a request of "a" had been smoothed against an
\* earlier one and a request with reset_ema had been scored
C26_Witness ==
    /\ Len(handled) = MaxRequests
    /\ handled[1].request.session_id = "a" /\ handled[1].stage = "scored"
    /\ handled[2].request.session_id = "a" /\ handled[2].stage = "scored"
    /\ ~handled[2].request.reset_ema
    /\ handled[2].response.score.overall_score # handled[2].response.score.raw_score
    /\ handled[3].request.session_id = "" /\ handled[3].stage = "scored"
    /\ handled[3].response.score.overall_score = handled[3].response.score.raw_score
    /\ handled[3].response.score.raw_score # handled[2].response.score.overall_score
    /\ scoring_engines["a"].ema_score = Some(handled[2].response.score.overall_score)

\* C27: a request answered with HTTP 400 leaves the registry as it was: the same
\* session ids and the same smoothing value in every engine.
C27_RejectedLeavesNoState ==
    [][(Handled /\ LastHandled.response.status = 400) => scoring_engines' = scoring_engines]_vars

\* the same for the requests that fail before _get_scoring_engine is called
C27_RejectedEarlyLeavesNoState ==
    [][(Handled /\ LastHandled.stage = "rejected") => scoring_engines' = scoring_engines]_vars

\* raw_score of a ScoringResult in the mode of keypoint_type
RawScoreFor(keypoint_type, score) ==
    IF keypoint_type = "hand"
    THEN RAdd(RMul(position_weight, score.positional_score), RMul(angle_weight, score.angular_score))
    ELSE score.positional_score

\* C28: every request is scored in the mode of its own keypoint_type: combined
\* for a hand, positional for a pose.
C28_ModeOfOwnType ==
    \A h \in 1..Len(handled) :
        handled[h].stage = "scored" =>
            handled[h].response.score.raw_score =
                RawScoreFor(Payloads[handled[h].request.payload].keypoint_type,
                            handled[h].response.score)

\* the same for the sessions whose requests are all of one keypoint type
C28_ModeOfOwnTypeUnmixed ==
    (\A g, h \in 1..Len(handled) :
         handled[g].request.session_id = handled[h].request.session_id =>
             Payloads[handled[g].request.payload].keypoint_type =
                 Payloads[handled[h].request.payload].keypoint_type)
    => C28_ModeOfOwnType

\* the bearing of the wrist -> joint 9 vector of kp, in degrees
WristBearing(kp) == BearingDeg(VSub(SubSeq(Row(kp, 9), 1, 2), SubSeq(Row(kp, 0), 1, 2)))

\* <<user bearing, expert bearing>> per geometry
BearingTable ==
    [g \in 1..Len(CueGeometry) |-> <<WristBearing(CueGeometry[g][1]), WristBearing(CueGeometry[g][2])>>]

\* the angle between two directions given by their bearings: 0..180
DirectionGap(a, b) == IF Abs(a - b) > 180 THEN 360 - Abs(a - b) ELSE Abs(a - b)

\* C29: generate_cues finds a rotation cue exactly when the directions of the
\* user's and the expert's wrist -> joint 9 vectors are at least 15 degrees
\* apart, bearings a whole turn apart being the same direction.
C29_RotationByDirection ==
    cue_in.op = "generate_cues" =>
        (WithCategory(FindingsOf(cue_in), "rotation") # {}
             <=> DirectionGap(BearingTable[cue_in.geom][1], BearingTable[cue_in.geom][2]) >= 15)

\* the same for the calls whose bearings are at most half a turn apart
C29_RotationWithinHalfTurn ==
    (cue_in.op = "generate_cues" =>
         Abs(BearingTable[cue_in.geom][1] - BearingTable[cue_in.geom][2]) <= 180)
    => C29_RotationByDirection

-----------------------------------------------------------------------------
(* Claims about _deterministic_parse (checked under SpecParse)               *)

\* the tokens of the items of results, one after the other
RECURSIVE ItemTokens(_)
ItemTokens(items) ==
    IF items = <<>> THEN <<>> ELSE Split(items[1]) \o ItemTokens(Tail(items))

\* C30: every iteration of the loop of _deterministic_parse consumes at least one
\* token of the phrase, so that the call ends, and the tokens of the items it
\* returns, one after the other, are the tokens of the phrase; for every
\* vocabulary, entries that are empty or all whitespace included.
C30_ParseConsumes ==
    /\ [][parse_results' # parse_results => parse_i' > parse_i]_vars
    /\ [](parse_pc = "done" => ItemTokens(parse_results) = Split(parse_in.normalized))

\* no entry of the vocabulary is empty or all whitespace
NoBlankEntry == \A w \in 1..Len(parse_in.vocab) : Split(parse_in.vocab[w]) # <<>>

\* the same for the vocabularies without such an entry; the call then makes at
\* most one iteration for each token
C30_ParseConsumesNoBlankEntry ==
    /\ [][(NoBlankEntry /\ parse_results' # parse_results) => parse_i' > parse_i]_vars
    /\ []((NoBlankEntry /\ parse_pc = "done") =>
              ItemTokens(parse_results) = Split(parse_in.normalized))
    /\ [](NoBlankEntry => Len(parse_results) <= Len(Split(parse_in.normalized)))

====
